---- MODULE Spec2Model ----
(***************************************************************************)
(* The ledger of one workshop_2 node (Blockchain in blockchain.py) and the *)
(* node operations that mutate it (Node.handle_new_block, Node.consensus   *)
(* in node.py), driven by clients and by peers.                            *)
(*                                                                         *)
(* SHA-256 is modelled as an ideal (collision-free) hash: the digest of a  *)
(* payload is the tuple of the hashed fields in key-sorted order.  The     *)
(* number of leading zero characters of a digest is a fixed function of    *)
(* the payload that changes with the nonce.  The literal "0" used as the   *)
(* genesis previous_hash is the empty tuple.                               *)
(*                                                                         *)
(* time.time() is a logical clock: the length of the chain at the call.    *)
(* uuid.uuid4() is a fresh value: UuidBase plus the logical clock.         *)
(***************************************************************************)
EXTENDS Integers, Sequences, FiniteSets, TLC

VARIABLES chain, pending_transactions, rejected_transactions, user_balances,
          reply,            \* the last call a peer made to the node and what it returned
          mining_thread,    \* Node.mining_thread: "none", or a thread "alive" or "dead"
          running,          \* Node.running
          nodes,            \* the ledgers of the nodes of a network
          submissions_open, \* clients and miners of the network are still active
          mining,           \* the calls of mine_pending_transactions in progress
          handlers,         \* the requests in flight: POSTs on their way to a peer
                            \* and calls of add_transaction in progress
          registered_nodes, \* Node.registered_nodes
          config_file,      \* the "nodes" list of the configuration file
          active_nodes,     \* Node.active_nodes: "host:port" -> time last heard of
          clock             \* time.time()

ledger_vars == <<chain, pending_transactions, rejected_transactions, user_balances>>
miner_vars == <<mining_thread, running>>
network_vars == <<nodes, submissions_open>>
thread_vars == <<mining, handlers>>
registry_vars == <<registered_nodes, config_file, active_nodes, clock>>
vars == <<chain, pending_transactions, rejected_transactions, user_balances,
          reply, mining_thread, running, nodes, submissions_open, mining, handlers,
          registered_nodes, config_file, active_nodes, clock>>

\* a node whose peers are left out: no peer registered, none heard of
NoRegistry ==
    /\ registered_nodes = << >>
    /\ config_file = << >>
    /\ active_nodes = << >>
    /\ clock = 0

----------------------------------------------------------------------------
(* Bounds of the model *)

MaxChain == 3
MaxPending == 2
MaxRejections == 1
HashZeroRange == 5

(* Program constants *)

InitialBalance == 100
MiningReward == 1
Difficulty == 4
BlockDefaultDifficulty == 4

SYSTEM == "0"
MinerAddress == "miner"
PeerMinerAddress == "peer-miner"

UuidBase == 10
GenesisTime == 0
PeerGenesisTime == 5

----------------------------------------------------------------------------
(* Transaction *)

Tx(s, r, a, ts, sig) ==
    [sender |-> s, recipient |-> r, amount |-> a, timestamp |-> ts, signature |-> sig]

\* Transaction.calculate_hash: SHA-256 of the key-sorted JSON of to_dict()
TxHash(t) == <<t.amount, t.recipient, t.sender, t.signature, t.timestamp>>

\* the (sender, recipient, amount) triple compared by the duplicate heuristics
TxTriple(t) == <<t.sender, t.recipient, t.amount>>

\* time.time() at a call made while the chain is c
Now(c) == Len(c)

\* str(uuid.uuid4()) at a call made while the chain is c
FreshUuid(c) == UuidBase + Len(c)

\* Transaction.from_dict: a falsy timestamp or signature is replaced by a default
TxFromDict(d, c) ==
    Tx(d.sender, d.recipient, d.amount,
       IF d.timestamp = 0 THEN Now(c) ELSE d.timestamp,
       IF d.signature = 0 THEN FreshUuid(c) ELSE d.signature)

----------------------------------------------------------------------------
(* Block *)

ZeroHash == << >>

\* Block.calculate_hash: difficulty and hash are not part of the payload
CalculateHash(b) == <<b.index, b.nonce, b.previous_hash, b.timestamp, b.transactions>>

\* number of leading '0' characters of a digest
LeadingZeros(h) ==
    IF Len(h) = 5 THEN (h[1] + h[2] + h[4] + Len(h[5])) % HashZeroRange ELSE 0

\* hash[:difficulty] == '0' * difficulty
HasPrefix(h, d) == LeadingZeros(h) >= d

\* Block.__init__: the hash is computed from the fields
NewBlock(idx, txs, ts, prev, nonce, diff) ==
    LET b == [index |-> idx, transactions |-> txs, timestamp |-> ts,
              previous_hash |-> prev, nonce |-> nonce, difficulty |-> diff,
              hash |-> ZeroHash]
    IN  [b EXCEPT !.hash = CalculateHash(b)]

\* Block.mine_block: increment the nonce until the digest has the prefix
RECURSIVE MineBlock(_)
MineBlock(b) ==
    IF HasPrefix(b.hash, b.difficulty) THEN b
    ELSE LET n == [b EXCEPT !.nonce = b.nonce + 1]
         IN  MineBlock([n EXCEPT !.hash = CalculateHash(n)])

\* Block.is_hash_valid
IsHashValid(b) == HasPrefix(b.hash, b.difficulty) /\ b.hash = CalculateHash(b)

\* Block.from_dict: rebuild the transactions, then take the hash as sent
BlockFromDict(d, c) ==
    [index |-> d.index,
     transactions |-> [i \in 1..Len(d.transactions) |-> TxFromDict(d.transactions[i], c)],
     timestamp |-> d.timestamp, previous_hash |-> d.previous_hash,
     nonce |-> d.nonce, difficulty |-> d.difficulty, hash |-> d.hash]

\* Blockchain.create_genesis_block: Block(0, [], time.time(), "0"), default difficulty 4
GenesisBlock(ts) == NewBlock(0, << >>, ts, ZeroHash, 0, BlockDefaultDifficulty)

\* Blockchain.get_latest_block
LatestBlock(c) == c[Len(c)]

----------------------------------------------------------------------------
(* Blockchain: balances *)

\* Blockchain.get_balance
GetBalance(bal, a) == IF a \in DOMAIN bal THEN bal[a] ELSE 0

\* user_balances[a] = v
SetBalance(bal, a, v) == [x \in DOMAIN bal \cup {a} |-> IF x = a THEN v ELSE bal[x]]

\* an initialisation that overwrites the balance of a known account
ResetAccount(bal, a, v) == SetBalance(bal, a, v)

\* if a not in user_balances: user_balances[a] = v
InitAccount(bal, a, v) == IF a \in DOMAIN bal THEN bal ELSE SetBalance(bal, a, v)

\* Blockchain._update_balances: only the reward (sender "0") transactions are applied
RECURSIVE UpdateBalancesTxs(_, _)
UpdateBalancesTxs(bal, txs) ==
    IF txs = << >> THEN bal
    ELSE LET t == Head(txs)
         IN  UpdateBalancesTxs(
                 IF t.sender = SYSTEM
                 THEN SetBalance(bal, t.recipient, GetBalance(bal, t.recipient) + t.amount)
                 ELSE bal,
                 Tail(txs))

UpdateBalances(bal, block) == UpdateBalancesTxs(bal, block.transactions)

----------------------------------------------------------------------------
(* Blockchain: admission *)

AllChainTxs(c) == UNION {{c[i].transactions[j] : j \in 1..Len(c[i].transactions)} : i \in 1..Len(c)}

SeqTxs(s) == {s[i] : i \in 1..Len(s)}

\* a duplicate test that compares content hashes only
DuplicateByHashOnly(t, pend, c) ==
    \/ \E p \in SeqTxs(pend) : TxHash(p) = TxHash(t)
    \/ \E x \in AllChainTxs(c) : TxHash(x) = TxHash(t)

\* a duplicate test that looks at the pending pool only
DuplicateInPendingOnly(t, pend, c) ==
    \/ \E p \in SeqTxs(pend) : TxHash(p) = TxHash(t)
    \/ \E p \in SeqTxs(pend) : TxTriple(p) = TxTriple(t)

\* a duplicate test that looks for the triple in the chain as well
DuplicateByTripleAnywhere(t, pend, c) ==
    \/ \E p \in SeqTxs(pend) \cup AllChainTxs(c) : TxHash(p) = TxHash(t)
    \/ \E p \in SeqTxs(pend) \cup AllChainTxs(c) : TxTriple(p) = TxTriple(t)

\* Blockchain._is_duplicate_transaction
IsDuplicateTransaction(t, pend, c) ==
    \/ \E p \in SeqTxs(pend) : TxHash(p) = TxHash(t)
    \/ \E x \in AllChainTxs(c) : TxHash(x) = TxHash(t)
    \/ \E p \in SeqTxs(pend) : TxTriple(p) = TxTriple(t)

\* Blockchain._reject_transaction
RejectTransaction(rej, t, reason, c) ==
    Append(rej, [transaction |-> t, reason |-> reason, timestamp |-> Now(c)])

DuplicateReason == <<"Duplicate transaction">>
InsufficientReason == <<"Insufficient funds">>
InsufficientDetail(s, a) == <<"Insufficient funds: S < A", s, a>>

\* the number of add_transaction calls that rejected: each leaves one entry that is
\* not the bare "Insufficient funds" one
RejectingCalls(rej) ==
    Cardinality({i \in 1..Len(rej) : rej[i].reason # InsufficientReason})

\* a funds test that lets every amount through
AlwaysFunded(balance, amount) == TRUE

\* the sender's funds are enough: not (sender_balance < amount)
HasFunds(balance, amount) == ~(balance < amount)

\* a validation that credits the recipient and leaves the sender's balance alone
ValidateWithoutDebit(t, bal, rej, c) ==
    IF t.sender = SYSTEM
    THEN [ok |-> TRUE, balances |-> bal, rejected |-> rej]
    ELSE LET b1 == InitAccount(bal, t.sender, InitialBalance)
             b2 == InitAccount(b1, t.recipient, 0)
         IN  IF ~HasFunds(b2[t.sender], t.amount)
             THEN [ok |-> FALSE, balances |-> b2,
                   rejected |-> RejectTransaction(rej, t,
                                    InsufficientDetail(b2[t.sender], t.amount), c)]
             ELSE [ok |-> TRUE, balances |-> [b2 EXCEPT ![t.recipient] = @ + t.amount],
                   rejected |-> rej]

\* Blockchain._is_transaction_valid: the verdict, and the balances and the rejected
\* list it leaves behind
IsTransactionValid(t, bal, rej, c) ==
    IF t.sender = SYSTEM
    THEN [ok |-> TRUE, balances |-> bal, rejected |-> rej]
    ELSE LET b1 == InitAccount(bal, t.sender, InitialBalance)
             b2 == InitAccount(b1, t.recipient, 0)
             sender_balance == b2[t.sender]
         IN  IF ~HasFunds(sender_balance, t.amount)
             THEN [ok |-> FALSE, balances |-> b2,
                   rejected |-> RejectTransaction(rej, t,
                                    InsufficientDetail(sender_balance, t.amount), c)]
             ELSE LET b3 == [b2 EXCEPT ![t.sender] = @ - t.amount]
                      b4 == [b3 EXCEPT ![t.recipient] = @ + t.amount]
                  IN  [ok |-> TRUE, balances |-> b4, rejected |-> rej]

\* Blockchain.add_transaction on the ledger (c, pend, rej, bal): the ledger after the
\* call and the value returned
LedgerAddTransaction(t, c, pend, rej, bal) ==
    IF IsDuplicateTransaction(t, pend, c)
    THEN [ok |-> FALSE, pending |-> pend, balances |-> bal,
          rejected |-> RejectTransaction(rej, t, DuplicateReason, c)]
    ELSE LET v == IsTransactionValid(t, bal, rej, c)
         IN  IF ~v.ok
             THEN [ok |-> FALSE, pending |-> pend, balances |-> v.balances,
                   rejected |-> RejectTransaction(v.rejected, t, InsufficientReason, c)]
             ELSE [ok |-> TRUE, pending |-> Append(pend, t), balances |-> v.balances,
                   rejected |-> v.rejected]

----------------------------------------------------------------------------
(* Blockchain: mining *)

\* the reward transaction built by mine_pending_transactions
RewardTransaction(miner, c) == Tx(SYSTEM, miner, MiningReward, Now(c), FreshUuid(c))

\* a block that lists the reward before the pending transactions
MinedRewardFirst(miner, c, pend, diff) ==
    MineBlock(NewBlock(Len(c), << RewardTransaction(miner, c) >> \o pend, Now(c),
                       LatestBlock(c).hash, 0, diff))

\* Blockchain.mine_pending_transactions: the block that is mined and appended
MinedBlock(miner, c, pend, diff) ==
    MineBlock(NewBlock(Len(c), Append(pend, RewardTransaction(miner, c)), Now(c),
                       LatestBlock(c).hash, 0, diff))

----------------------------------------------------------------------------
(* Blockchain: validation and replacement *)

\* the balance simulation of is_chain_valid over the transactions of one block:
\* ok is FALSE at the first transaction whose sender lacks the funds
RECURSIVE ReplayTxs(_, _)
ReplayTxs(temp, txs) ==
    IF txs = << >> THEN [ok |-> TRUE, balances |-> temp]
    ELSE LET t  == Head(txs)
             b1 == IF t.sender # SYSTEM THEN InitAccount(temp, t.sender, InitialBalance)
                   ELSE temp
             b2 == InitAccount(b1, t.recipient, 0)
         IN  IF t.sender = SYSTEM
             THEN ReplayTxs([b2 EXCEPT ![t.recipient] = @ + t.amount], Tail(txs))
             ELSE IF b2[t.sender] < t.amount
             THEN [ok |-> FALSE, balances |-> b2]
             ELSE LET b3 == [b2 EXCEPT ![t.sender] = @ - t.amount]
                  IN  ReplayTxs([b3 EXCEPT ![t.recipient] = @ + t.amount], Tail(txs))

\* the loop of is_chain_valid from block position i (1-based) with balances temp
RECURSIVE ValidFrom(_, _, _)
ValidFrom(c, i, temp) ==
    IF i > Len(c) THEN TRUE
    ELSE IF c[i].hash # CalculateHash(c[i]) THEN FALSE
    ELSE IF c[i].previous_hash # c[i-1].hash THEN FALSE
    ELSE IF ~IsHashValid(c[i]) THEN FALSE
    ELSE LET r == ReplayTxs(temp, c[i].transactions)
         IN  IF ~r.ok THEN FALSE ELSE ValidFrom(c, i + 1, r.balances)

\* a validation that looks at the latest block only
IsTipValid(c) == IF Len(c) <= 1 THEN TRUE ELSE ValidFrom(c, Len(c), << >>)

\* Blockchain.is_chain_valid
IsChainValid(c) == IF Len(c) <= 1 THEN TRUE ELSE ValidFrom(c, 2, << >>)

\* replace_chain: user_balances = {} and _update_balances for every block
RECURSIVE RebuildBalances(_, _, _)
RebuildBalances(bal, c, i) ==
    IF i > Len(c) THEN bal ELSE RebuildBalances(UpdateBalances(bal, c[i]), c, i + 1)

\* a filter that drops the pending transactions whose hash is among txs and keeps
\* the ones that only share a triple
FilterByHashOnly(pend, txs) ==
    SelectSeq(pend, LAMBDA p : TxHash(p) \notin {TxHash(x) : x \in txs})

\* the pending transactions kept when the transactions txs entered the chain:
\* neither their hash nor their triple is among txs
FilterPending(pend, txs) ==
    SelectSeq(pend, LAMBDA p : /\ TxHash(p) \notin {TxHash(x) : x \in txs}
                               /\ TxTriple(p) \notin {TxTriple(x) : x \in txs})

\* a replacement that swaps the chain in before it validates and does not swap back
ReplaceBeforeValidating(new_chain, c, pend, bal) ==
    LET blocks == [i \in 1..Len(new_chain) |-> BlockFromDict(new_chain[i], c)]
    IN  IF Len(blocks) <= Len(c)
        THEN [ok |-> FALSE, chain |-> c, pending |-> pend, balances |-> bal]
        ELSE IF ~IsChainValid(blocks)
        THEN [ok |-> FALSE, chain |-> blocks, pending |-> pend, balances |-> bal]
        ELSE [ok |-> TRUE, chain |-> blocks,
              pending |-> FilterPending(pend, AllChainTxs(blocks)),
              balances |-> RebuildBalances(<< >>, blocks, 1)]

\* a replacement that never compares the lengths
ReplaceAnyValid(new_chain, c, pend, bal) ==
    LET blocks == [i \in 1..Len(new_chain) |-> BlockFromDict(new_chain[i], c)]
    IN  IF ~IsChainValid(blocks)
        THEN [ok |-> FALSE, chain |-> c, pending |-> pend, balances |-> bal]
        ELSE [ok |-> TRUE, chain |-> blocks,
              pending |-> FilterPending(pend, AllChainTxs(blocks)),
              balances |-> RebuildBalances(<< >>, blocks, 1)]

\* Blockchain.replace_chain
ReplaceChain(new_chain, c, pend, bal) ==
    LET blocks == [i \in 1..Len(new_chain) |-> BlockFromDict(new_chain[i], c)]
    IN  IF Len(blocks) <= Len(c)
        THEN [ok |-> FALSE, chain |-> c, pending |-> pend, balances |-> bal]
        ELSE IF ~IsChainValid(blocks)
        THEN [ok |-> FALSE, chain |-> c, pending |-> pend, balances |-> bal]
        ELSE [ok |-> TRUE, chain |-> blocks,
              pending |-> FilterPending(pend, AllChainTxs(blocks)),
              balances |-> RebuildBalances(<< >>, blocks, 1)]

----------------------------------------------------------------------------
(* Node *)

\* the loop of Node.consensus over the /chain responses of the active peers: the
\* first response whose length beats every earlier one and our own chain
RECURSIVE LongestResponse(_, _, _)
LongestResponse(responses, max_length, new_chain) ==
    IF responses = << >> THEN new_chain
    ELSE LET r == Head(responses)
         IN  IF r.length > max_length
             THEN LongestResponse(Tail(responses), r.length, r.chain)
             ELSE LongestResponse(Tail(responses), max_length, new_chain)

\* Node.consensus
Consensus(responses, c, pend, bal) ==
    LET new_chain == LongestResponse(responses, Len(c), << >>)
    IN  IF new_chain # << >>
        THEN ReplaceChain(new_chain, c, pend, bal)
        ELSE [ok |-> FALSE, chain |-> c, pending |-> pend, balances |-> bal]

\* a pruning that leaves the pending pool as it is
KeepPending(pend, block) == pend

\* Node._remove_transactions_in_block: a pass by hash, then a pass by triple
RemoveTransactionsInBlock(pend, block) ==
    LET txs == SeqTxs(block.transactions)
        after_hash == SelectSeq(pend, LAMBDA p : TxHash(p) \notin {TxHash(x) : x \in txs})
    IN  SelectSeq(after_hash, LAMBDA p : TxTriple(p) \notin {TxTriple(x) : x \in txs})

\* the test of Node.handle_new_block for "the next block of our chain"
\* the index test alone, without the link to the latest hash
IsNextIndex(block, latest) == block.index = latest.index + 1

IsNextBlock(block, latest) ==
    block.index = latest.index + 1 /\ block.previous_hash = latest.hash

\* Node.handle_new_block: the ledger after the call, the value returned and the
\* branch taken
HandleNewBlock(block_data, responses, c, pend, bal) ==
    LET block  == BlockFromDict(block_data, c)
        latest == LatestBlock(c)
    IN  IF IsNextBlock(block, latest)
        THEN IF IsHashValid(block)
             THEN [ok |-> TRUE, branch |-> "append", chain |-> Append(c, block),
                   pending |-> RemoveTransactionsInBlock(pend, block),
                   balances |-> UpdateBalances(bal, block)]
             ELSE [ok |-> FALSE, branch |-> "reject", chain |-> c, pending |-> pend,
                   balances |-> bal]
        ELSE IF block.index > latest.index
        THEN LET r == Consensus(responses, c, pend, bal)
             IN  [ok |-> TRUE, branch |-> IF r.ok THEN "replaced" ELSE "consensus",
                  chain |-> r.chain, pending |-> r.pending, balances |-> r.balances]
        ELSE [ok |-> FALSE, branch |-> "reject", chain |-> c, pending |-> pend,
              balances |-> bal]

----------------------------------------------------------------------------
(* The environment: what clients submit and what peers send *)

ClientTime == 1

\* the transactions clients submit: a transfer, the same transfer submitted again
\* (same triple, other signature), a second transfer that overdraws alice when
\* stacked on the first, a "0" transaction and a self-transfer
TxPool ==
    { Tx("alice", "bob", 40, ClientTime, 1), Tx("alice", "bob", 40, ClientTime, 2),
      Tx("alice", "bob", 70, ClientTime, 1), Tx(SYSTEM, "bob", 40, ClientTime, 1),
      Tx("bob", "bob", 70, ClientTime, 1) }

\* the reward transaction of a block a peer mined at position idx
PeerReward(idx) == Tx(SYSTEM, PeerMinerAddress, MiningReward, idx, 2 * UuidBase + idx)

\* the transactions of an honest peer block at position idx: a transfer a client
\* submitted to the peer (to us as well, when idx is 1) and the reward
PeerTxs(idx) == << Tx("alice", "bob", 40, ClientTime, idx), PeerReward(idx) >>

\* the same with a transfer that overdraws alice
PeerOverdraft(idx) ==
    << Tx("alice", "bob", 40, ClientTime, idx), Tx("alice", "bob", 70, ClientTime, 1),
       PeerReward(idx) >>

\* a block mined by a peer (Block.to_dict keeps every field)
PeerBlock(idx, prev, txs) == MineBlock(NewBlock(idx, txs, idx, prev, 0, Difficulty))

\* what can happen to a block before it is sent: nothing, its transactions are
\* changed after mining, it is sent without having been mined, or it is built
\* with difficulty 0
Tampered(b, how) ==
    CASE how = "none" -> b
      [] how = "txs"  -> [b EXCEPT !.transactions = SubSeq(@, 2, Len(@))]
      [] how = "pow"  -> NewBlock(b.index, b.transactions, b.timestamp, b.previous_hash,
                                  0, b.difficulty)
      [] how = "easy" -> NewBlock(b.index, b.transactions, b.timestamp, b.previous_hash,
                                  0, 0)

Tampers == {"none", "txs", "pow", "easy"}

PeerGenesis == GenesisBlock(PeerGenesisTime)

\* the block data peers POST to /blocks/new while our chain is c: a block for the
\* next position, possibly tampered with, or a block for another position or
\* another predecessor
PeerBlockData(c) ==
    LET tip == LatestBlock(c)
    IN  { Tampered(PeerBlock(tip.index + 1, tip.hash, PeerTxs(tip.index + 1)), how) :
            how \in Tampers }
        \cup
        { PeerBlock(p[1], p[2], << PeerReward(p[1]) >>) :
            p \in { <<tip.index, tip.hash>>, <<tip.index + 1, PeerGenesis.hash>>,
                    <<tip.index + 2, tip.hash>> } }

\* a chain extended by one block a peer mined
Extended(c, txs) == Append(c, PeerBlock(Len(c), LatestBlock(c).hash, txs))

\* base grown by n honest peer blocks
RECURSIVE Grown(_, _)
Grown(base, n) == IF n = 0 THEN base ELSE Grown(Extended(base, PeerTxs(Len(base))), n - 1)

\* the chains grown from base up to MaxChain blocks: by honest blocks, or by one
\* block that overdraws or was tampered with
GrownChains(base) ==
    { Grown(base, n) : n \in 0..(MaxChain - Len(base)) }
    \cup
    ( IF Len(base) >= MaxChain THEN {}
      ELSE { Extended(base, PeerOverdraft(Len(base))) }
           \cup
           { [pc EXCEPT ![Len(pc)] = Tampered(@, how)] :
               pc \in { Grown(base, 1) }, how \in Tampers \ {"none"} } )

\* the chains peers serve at /chain while our chain is c: their own chain or ours,
\* grown by blocks they mined
PeerChains(c) == GrownChains(<<PeerGenesis>>) \cup GrownChains(c)

\* the /chain responses Node.consensus collects (api.get_chain: length is len(chain))
PeerResponses(c) ==
    {<< >>} \cup { << [chain |-> pc, length |-> Len(pc)] >> : pc \in PeerChains(c) }

----------------------------------------------------------------------------
(* The state machine *)

\* no call of a peer has been observed
NoReply == [op |-> "none"]

\* Blockchain.__init__ and Node.__init__: no mining thread; the node stands alone
Init ==
    /\ chain = << GenesisBlock(GenesisTime) >>
    /\ pending_transactions = << >>
    /\ rejected_transactions = << >>
    /\ user_balances = << >>
    /\ reply = NoReply
    /\ mining_thread = "none"
    /\ running = FALSE
    /\ mining = << >>
    /\ handlers = << >>
    /\ NoRegistry
    /\ nodes = << >>
    /\ submissions_open = FALSE

\* Blockchain.add_transaction(t), as POST /transactions/new calls it
AddTransaction ==
    \E t \in TxPool :
        LET r == LedgerAddTransaction(t, chain, pending_transactions,
                                      rejected_transactions, user_balances)
        IN  /\ Len(r.pending) <= MaxPending
            /\ RejectingCalls(r.rejected) <= MaxRejections
            /\ pending_transactions' = r.pending
            /\ rejected_transactions' = r.rejected
            /\ user_balances' = r.balances
            /\ UNCHANGED <<chain, reply, miner_vars, network_vars, thread_vars, registry_vars>>

\* Blockchain.mine_pending_transactions(miner_address), as GET /mine and the mining
\* loop call it
MinePending ==
    /\ Len(chain) < MaxChain
    /\ LET block == MinedBlock(MinerAddress, chain, pending_transactions, Difficulty)
       IN  /\ chain' = Append(chain, block)
           /\ user_balances' = UpdateBalances(user_balances, block)
           /\ pending_transactions' = << >>
    /\ UNCHANGED <<rejected_transactions, reply, miner_vars, network_vars, thread_vars,
                   registry_vars>>

\* Node.handle_new_block(block_data), as POST /blocks/new calls it
ReceiveBlock ==
    \E block_data \in PeerBlockData(chain) :
      \E responses \in IF IsNextBlock(BlockFromDict(block_data, chain), LatestBlock(chain))
                        THEN {<< >>} ELSE PeerResponses(chain) :
        LET r == HandleNewBlock(block_data, responses, chain, pending_transactions,
                                user_balances)
        IN  /\ Len(r.chain) <= MaxChain
            /\ chain' = r.chain
            /\ pending_transactions' = r.pending
            /\ user_balances' = r.balances
            /\ UNCHANGED <<rejected_transactions, reply, miner_vars, network_vars, thread_vars,
                   registry_vars>>

\* Node.consensus() and through it Blockchain.replace_chain, as GET /nodes/resolve
\* calls it
RunConsensus ==
    \E responses \in PeerResponses(chain) :
        LET r == Consensus(responses, chain, pending_transactions, user_balances)
        IN  /\ chain' = r.chain
            /\ pending_transactions' = r.pending
            /\ user_balances' = r.balances
            /\ UNCHANGED <<rejected_transactions, reply, miner_vars, network_vars, thread_vars,
                   registry_vars>>

Next == AddTransaction \/ MinePending \/ ReceiveBlock \/ RunConsensus

Spec == Init /\ [][Next]_vars

\* Blockchain.replace_chain(new_chain) called with a chain a peer serves
DirectReplace ==
    \E candidate \in PeerChains(chain) :
        LET r == ReplaceChain(candidate, chain, pending_transactions, user_balances)
        IN  /\ chain' = r.chain
            /\ pending_transactions' = r.pending
            /\ user_balances' = r.balances
            /\ UNCHANGED <<rejected_transactions, reply, miner_vars, network_vars, thread_vars,
                   registry_vars>>

\* every operation that can touch the chain, in any order
NextChain == AddTransaction \/ MinePending \/ ReceiveBlock \/ RunConsensus \/ DirectReplace

SpecChain == Init /\ [][NextChain]_vars

\* a ledger that only its own clients and its own miner touch
NextLocal == AddTransaction \/ MinePending

SpecLocal == Init /\ [][NextLocal]_vars

----------------------------------------------------------------------------
(* A ledger that served its own clients and its own miner and then takes one *)
(* call from a peer, whose argument and result are kept in reply             *)

\* Blockchain.add_transaction while no peer has called
LocalAdd == reply = NoReply /\ AddTransaction

\* Blockchain.mine_pending_transactions while no peer has called
LocalMine == reply = NoReply /\ MinePending

\* Blockchain.replace_chain(candidate) called with a chain a peer serves; dropped is
\* the code's removed_count
CallReplaceChain ==
    /\ reply = NoReply
    /\ \E candidate \in PeerChains(chain) :
          LET r == ReplaceChain(candidate, chain, pending_transactions, user_balances)
          IN  /\ chain' = r.chain
              /\ pending_transactions' = r.pending
              /\ user_balances' = r.balances
              /\ reply' = [op |-> "replace_chain", candidate |-> candidate, ok |-> r.ok,
                           dropped |-> Len(pending_transactions) - Len(r.pending)]
    /\ UNCHANGED <<rejected_transactions, miner_vars, network_vars, thread_vars, registry_vars>>

\* the chains two peers may serve together: ours grown by one or two honest blocks,
\* ours grown by two blocks the last of which was never mined, a chain of the same
\* length as ours on another genesis block, and that chain grown by one block
PairChains(c) ==
    { pc \in { Grown(c, 1), Grown(c, 2),
               [Grown(c, 2) EXCEPT ![Len(c) + 2] = Tampered(@, "pow")],
               Grown(<<PeerGenesis>>, Len(c) - 1), Grown(<<PeerGenesis>>, Len(c)) } :
        Len(pc) <= MaxChain }

\* the /chain responses of two active peers, in the order Node.consensus asks them
PeerResponsePairs(c) ==
    { << [chain |-> p, length |-> Len(p)], [chain |-> q, length |-> Len(q)] >> :
        p \in PairChains(c), q \in PairChains(c) }

\* Node.consensus() with the responses of one or two active peers
CallConsensus ==
    /\ reply = NoReply
    /\ \E responses \in PeerResponses(chain) \cup PeerResponsePairs(chain) :
          LET r == Consensus(responses, chain, pending_transactions, user_balances)
          IN  /\ chain' = r.chain
              /\ pending_transactions' = r.pending
              /\ user_balances' = r.balances
              /\ reply' = [op |-> "consensus", responses |-> responses, ok |-> r.ok]
    /\ UNCHANGED <<rejected_transactions, miner_vars, network_vars, thread_vars, registry_vars>>

\* the blocks a peer broadcasts to us: those of PeerBlockData and the block a peer
\* mined two blocks ahead of our tip
BroadcastBlocks(c) ==
    PeerBlockData(c) \cup
    (IF Len(c) + 2 <= MaxChain THEN { LatestBlock(Grown(c, 2)) } ELSE {})

\* Node.handle_new_block(block_data); responses are the /chain responses of the
\* active peers, should the call run Node.consensus
CallHandleNewBlock ==
    /\ reply = NoReply
    /\ \E block_data \in BroadcastBlocks(chain) :
        \E responses \in IF IsNextBlock(BlockFromDict(block_data, chain), LatestBlock(chain))
                          THEN {<< >>} ELSE PeerResponses(chain) :
          LET r == HandleNewBlock(block_data, responses, chain, pending_transactions,
                                  user_balances)
          IN  /\ Len(r.chain) <= MaxChain
              /\ chain' = r.chain
              /\ pending_transactions' = r.pending
              /\ user_balances' = r.balances
              /\ reply' = [op |-> "handle_new_block", block |-> block_data,
                           responses |-> responses, ok |-> r.ok, branch |-> r.branch,
                           again |-> FALSE]
    /\ UNCHANGED <<rejected_transactions, miner_vars, network_vars, thread_vars, registry_vars>>

\* Node.handle_new_block called again with the block it was just given, the peers
\* answering /chain as they did the first time
Redeliver ==
    /\ reply.op = "handle_new_block"
    /\ ~reply.again
    /\ LET r == HandleNewBlock(reply.block, reply.responses, chain, pending_transactions,
                               user_balances)
       IN  /\ chain' = r.chain
           /\ pending_transactions' = r.pending
           /\ user_balances' = r.balances
           /\ reply' = [reply EXCEPT !.ok = r.ok, !.branch = r.branch, !.again = TRUE]
    /\ UNCHANGED <<rejected_transactions, miner_vars, network_vars, thread_vars, registry_vars>>

NextCalls == LocalAdd \/ LocalMine \/ CallReplaceChain \/ CallConsensus

SpecCalls == Init /\ [][NextCalls]_vars

\* the same ledger taking a block from a peer, once or twice
NextBlocks == LocalAdd \/ LocalMine \/ CallHandleNewBlock \/ Redeliver

SpecBlocks == Init /\ [][NextBlocks]_vars

----------------------------------------------------------------------------
(* A network of mutually registered, active miner nodes *)

NodeIds == {"n1", "n2"}

\* the longest pending pool a node of the network holds
NetMaxPending == 1

\* the construction times of the nodes, as time.time() stamps their genesis blocks
GenesisTimes == {GenesisTime, PeerGenesisTime}

\* Node.__init__: mining_address is "miner-<node_address>"
MiningAddress(n) == "miner-" \o n

\* the only other node: the active peer of n
Other(n) == CHOOSE m \in NodeIds : m # n

\* Blockchain.__init__ of a node constructed at time ts
NodeLedger(ts) ==
    [chain |-> << GenesisBlock(ts) >>, pending |-> << >>, rejected |-> << >>,
     balances |-> << >>]

\* the (sender, recipient, amount) bodies clients post
PostedBodies == { <<"alice", "bob", 40>> }

\* api.new_transaction: Transaction(sender, recipient, float(amount)) takes the time
\* of the call and a fresh uuid on the node that builds it
PostedTransaction(body, n, c) ==
    Tx(body[1], body[2], body[3], Now(c),
       (IF n = "n1" THEN 3 ELSE 4) * UuidBase + Len(c))

\* api.get_chain of node n, as Node.consensus of its peer reads it
ChainResponse(ns, n) == << [chain |-> ns[n].chain, length |-> Len(ns[n].chain)] >>

InitNetwork ==
    /\ nodes \in [NodeIds -> {NodeLedger(ts) : ts \in GenesisTimes}]
    /\ submissions_open = TRUE
    /\ chain = << GenesisBlock(GenesisTime) >>
    /\ pending_transactions = << >>
    /\ rejected_transactions = << >>
    /\ user_balances = << >>
    /\ reply = NoReply
    /\ mining_thread = "none"
    /\ running = FALSE
    /\ mining = << >>
    /\ handlers = << >>
    /\ NoRegistry

\* api.new_transaction on node n and, when admitted, Node.broadcast_transaction: the
\* peer builds its own Transaction from the body, if the POST reaches it
NodeSubmit(n) ==
    /\ submissions_open
    /\ \E body \in PostedBodies, delivered \in BOOLEAN :
        LET me == nodes[n]
            r  == LedgerAddTransaction(PostedTransaction(body, n, me.chain), me.chain,
                                       me.pending, me.rejected, me.balances)
            m  == Other(n)
            peer == nodes[m]
            q  == LedgerAddTransaction(PostedTransaction(body, m, peer.chain),
                                       peer.chain, peer.pending, peer.rejected,
                                       peer.balances)
            after == [me EXCEPT !.pending = r.pending, !.rejected = r.rejected,
                                !.balances = r.balances]
            peer_after == IF r.ok /\ delivered
                          THEN [peer EXCEPT !.pending = q.pending,
                                            !.rejected = q.rejected,
                                            !.balances = q.balances]
                          ELSE peer
        IN  /\ Len(after.pending) <= NetMaxPending
            /\ RejectingCalls(after.rejected) <= MaxRejections
            /\ Len(peer_after.pending) <= NetMaxPending
            /\ RejectingCalls(peer_after.rejected) <= MaxRejections
            /\ nodes' = [nodes EXCEPT ![n] = after, ![m] = peer_after]
    /\ UNCHANGED <<ledger_vars, reply, miner_vars, submissions_open, thread_vars, registry_vars>>

\* GET /mine on node n: mine_pending_transactions, then Node.broadcast_block; the
\* peer runs handle_new_block, if the POST reaches it
NodeMine(n) ==
    /\ submissions_open
    /\ nodes[n].pending # << >>
    /\ Len(nodes[n].chain) < MaxChain
    /\ \E delivered \in BOOLEAN :
        LET me == nodes[n]
            block == MinedBlock(MiningAddress(n), me.chain, me.pending, Difficulty)
            after == [me EXCEPT !.chain = Append(me.chain, block),
                                !.balances = UpdateBalances(me.balances, block),
                                !.pending = << >>]
            m == Other(n)
            peer == nodes[m]
            seen == [nodes EXCEPT ![n] = after]
            h == HandleNewBlock(block, ChainResponse(seen, n), peer.chain, peer.pending,
                                peer.balances)
            peer_after == IF delivered
                          THEN [peer EXCEPT !.chain = h.chain, !.pending = h.pending,
                                            !.balances = h.balances]
                          ELSE peer
        IN  nodes' = [nodes EXCEPT ![n] = after, ![m] = peer_after]
    /\ UNCHANGED <<ledger_vars, reply, miner_vars, submissions_open, thread_vars, registry_vars>>

\* clients stop posting and miners stop mining
StopSubmissions ==
    /\ submissions_open
    /\ submissions_open' = FALSE
    /\ UNCHANGED <<ledger_vars, reply, miner_vars, nodes, thread_vars, registry_vars>>

\* Node.consensus on node n, as GET /nodes/resolve calls it
NodeConsensus(n) ==
    /\ LET me == nodes[n]
           r == Consensus(ChainResponse(nodes, Other(n)), me.chain, me.pending,
                          me.balances)
       IN  nodes' = [nodes EXCEPT ![n] = [me EXCEPT !.chain = r.chain,
                                                    !.pending = r.pending,
                                                    !.balances = r.balances]]
    /\ UNCHANGED <<ledger_vars, reply, miner_vars, submissions_open, thread_vars, registry_vars>>

Submits == \E n \in NodeIds : NodeSubmit(n)
NodeMines == \E n \in NodeIds : NodeMine(n)
Resolves == \E n \in NodeIds : NodeConsensus(n)

NextNetwork == Submits \/ NodeMines \/ StopSubmissions \/ Resolves

\* every node keeps running Consensus()
SpecNetwork ==
    InitNetwork /\ [][NextNetwork]_vars /\ \A n \in NodeIds : WF_vars(NodeConsensus(n))

----------------------------------------------------------------------------
(* A miner node: the mining thread and the transactions that reach the node *)

\* the longest pending pool the miner node holds
MinerMaxPending == 4

\* the longest chain the miner node takes transactions for
MinerMaxChain == 2

\* the number of non-system pending transactions at which the node mines
BlockSize == 3

\* the (sender, recipient, amount) bodies clients and peers send to the miner node
MinerBodies ==
    { <<"alice", "bob", 10>>, <<"alice", "bob", 20>>, <<"bob", "alice", 10>>,
      <<"alice", "carol", 10>> }

\* [tx for tx in pending_transactions if tx.sender != "0"]
NonSystem(pend) == SelectSeq(pend, LAMBDA t : t.sender # SYSTEM)

\* Node.handle_new_transaction on the ledger (c, pend, rej, bal) of a miner node whose
\* mining_thread field is thread
HandleNewTransaction(transaction_data, thread, c, pend, rej, bal) ==
    LET transaction == TxFromDict(transaction_data, c)
    IN  IF IsDuplicateTransaction(transaction, pend, c)
        THEN [ok |-> FALSE, chain |-> c, pending |-> pend, rejected |-> rej,
              balances |-> bal]
        ELSE LET r == LedgerAddTransaction(transaction, c, pend, rej, bal)
             IN  IF r.ok /\ thread = "none" /\ Len(NonSystem(r.pending)) = BlockSize
                 THEN LET block == MinedBlock(MinerAddress, c, r.pending, Difficulty)
                      IN  [ok |-> TRUE, chain |-> Append(c, block), pending |-> << >>,
                           rejected |-> r.rejected,
                           balances |-> UpdateBalances(r.balances, block)]
                 ELSE [ok |-> r.ok, chain |-> c, pending |-> r.pending,
                       rejected |-> r.rejected, balances |-> r.balances]

\* Node.start_mining, as main and GET /mine/start call it on a miner node
StartMining ==
    /\ mining_thread # "alive"
    /\ running' = TRUE
    /\ mining_thread' = "alive"
    /\ UNCHANGED <<ledger_vars, reply, network_vars, thread_vars, registry_vars>>

\* Node.stop_mining, as GET /mine/stop calls it: the thread object stays in the field
StopMining ==
    /\ running
    /\ running' = FALSE
    /\ UNCHANGED <<ledger_vars, reply, mining_thread, network_vars, thread_vars, registry_vars>>

\* Node._mine_continuously: the thread leaves its loop once running is False
LoopExit ==
    /\ mining_thread = "alive"
    /\ ~running
    /\ mining_thread' = "dead"
    /\ UNCHANGED <<ledger_vars, reply, running, network_vars, thread_vars, registry_vars>>

\* Node._mine_continuously: one pass of the loop that mines
LoopTick ==
    /\ mining_thread = "alive"
    /\ running
    /\ Len(NonSystem(pending_transactions)) = BlockSize
    /\ MinePending

\* POST /transactions/new on the miner node: api.new_transaction
PostTransaction ==
    \E body \in MinerBodies :
        LET t == PostedTransaction(body, "n1", chain)
            r == LedgerAddTransaction(t, chain, pending_transactions,
                                      rejected_transactions, user_balances)
        IN  /\ Len(chain) < MinerMaxChain
            /\ Len(r.pending) <= MinerMaxPending
            /\ RejectingCalls(r.rejected) <= MaxRejections
            /\ pending_transactions' = r.pending
            /\ rejected_transactions' = r.rejected
            /\ user_balances' = r.balances
            /\ UNCHANGED <<chain, reply, miner_vars, network_vars, thread_vars, registry_vars>>

\* Node.handle_new_transaction(transaction_data) with a transaction a peer built
ReceiveTransaction ==
    \E body \in MinerBodies :
        LET r == HandleNewTransaction(PostedTransaction(body, "n2", chain),
                                      mining_thread, chain, pending_transactions,
                                      rejected_transactions, user_balances)
        IN  /\ Len(chain) < MinerMaxChain
            /\ Len(r.pending) <= MinerMaxPending
            /\ RejectingCalls(r.rejected) <= MaxRejections
            /\ chain' = r.chain
            /\ pending_transactions' = r.pending
            /\ rejected_transactions' = r.rejected
            /\ user_balances' = r.balances
            /\ UNCHANGED <<reply, miner_vars, network_vars, thread_vars, registry_vars>>

\* GET /mine on the miner node: refused while the pending pool is empty
RequestMine == pending_transactions # << >> /\ MinePending

NextMiner ==
    \/ StartMining
    \/ StopMining
    \/ LoopExit
    \/ LoopTick
    \/ PostTransaction
    \/ ReceiveTransaction
    \/ RequestMine

SpecMiner == Init /\ [][NextMiner]_vars

\* the condition under which a pass of the loop mines: ENABLED <<LoopTick>>_vars
LoopTickEnabled ==
    /\ mining_thread = "alive"
    /\ running
    /\ Len(NonSystem(pending_transactions)) = BlockSize
    /\ Len(chain) < MaxChain

\* the mining thread keeps taking its passes: WF_vars(LoopTick), written out with
\* the enabling condition of LoopTick, and WF_vars(LoopExit)
SpecMinerFair ==
    /\ SpecMiner
    /\ ([]<>(~LoopTickEnabled) \/ []<><<LoopTick>>_vars)
    /\ WF_vars(LoopExit)

----------------------------------------------------------------------------
(* GET /mine/start and GET /mine/stop on a miner node, the call that returned *)
(* last kept in reply                                                         *)

\* Node.start_mining with miner_mode True: it returns at once while the thread in
\* mining_thread is alive, and sets running only when it starts a new thread
CallStartMining ==
    /\ IF mining_thread = "alive"
       THEN UNCHANGED miner_vars
       ELSE running' = TRUE /\ mining_thread' = "alive"
    /\ reply' = [op |-> "start_mining"]
    /\ UNCHANGED <<ledger_vars, network_vars, thread_vars, registry_vars>>

\* Node.stop_mining: running is cleared; join(timeout=1) gives up on a thread that
\* sleeps for mining_interval, and the thread object stays in the field
CallStopMining ==
    /\ running' = FALSE
    /\ reply' = [op |-> "stop_mining"]
    /\ UNCHANGED <<ledger_vars, mining_thread, network_vars, thread_vars, registry_vars>>

NextStart ==
    \/ CallStartMining
    \/ CallStopMining
    \/ LoopExit
    \/ LoopTick
    \/ PostTransaction

SpecStart == Init /\ [][NextStart]_vars

----------------------------------------------------------------------------
(* Blockchain.is_chain_valid on the chains a ledger can be handed, and on    *)
(* their prefixes                                                            *)

\* the blocks chain c can be continued with: an honest block, a block of rewards
\* only, a block tampered with, a block that overdraws, a block that links to
\* another chain
ContinuingBlocks(c) ==
    LET tip == LatestBlock(c)
    IN  { Tampered(PeerBlock(Len(c), tip.hash, PeerTxs(Len(c))), how) : how \in Tampers }
        \cup
        { PeerBlock(Len(c), tip.hash, << PeerReward(Len(c)) >>),
          PeerBlock(Len(c), tip.hash, PeerOverdraft(Len(c))),
          PeerBlock(Len(c), PeerGenesis.hash, << PeerReward(Len(c)) >>) }

\* the chains of cs, each continued by one block
Continued(cs) == UNION { { Append(c, b) : b \in ContinuingBlocks(c) } : c \in cs }

\* the chains of at most n blocks built from the genesis block
RECURSIVE ChainsUpTo(_)
ChainsUpTo(n) ==
    IF n <= 1 THEN { << GenesisBlock(GenesisTime) >> }
    ELSE ChainsUpTo(n - 1)
         \cup Continued({ x \in ChainsUpTo(n - 1) : Len(x) = n - 1 })

\* a ledger whose chain is any of these chains
InitValidity ==
    /\ chain \in ChainsUpTo(MaxChain + 1)
    /\ pending_transactions = << >>
    /\ rejected_transactions = << >>
    /\ user_balances = << >>
    /\ reply = NoReply
    /\ mining_thread = "none"
    /\ running = FALSE
    /\ mining = << >>
    /\ handlers = << >>
    /\ NoRegistry
    /\ nodes = << >>
    /\ submissions_open = FALSE

\* is_chain_valid called on a ledger that holds the first k blocks of the chain
ValidatePrefix ==
    /\ \E k \in 1..Len(chain) :
          reply' = [op |-> "is_chain_valid", length |-> k,
                    ok |-> IsChainValid(SubSeq(chain, 1, k))]
    /\ UNCHANGED <<ledger_vars, miner_vars, network_vars, thread_vars, registry_vars>>

SpecValidity == InitValidity /\ [][ValidatePrefix]_vars

----------------------------------------------------------------------------
(* Admission through the ledger and through the node: the call and the value *)
(* it returned are kept in reply                                             *)

\* the call whose transaction and result reply holds
AdmissionCall(op, t, ok) ==
    [op |-> op, transaction |-> t, ok |-> ok,
     rejected_before |-> Len(rejected_transactions)]

\* Blockchain.add_transaction(t), its return value observed
CallAddTransaction ==
    \E t \in TxPool :
        LET r == LedgerAddTransaction(t, chain, pending_transactions,
                                      rejected_transactions, user_balances)
        IN  /\ Len(r.pending) <= MaxPending
            /\ RejectingCalls(r.rejected) <= MaxRejections
            /\ pending_transactions' = r.pending
            /\ rejected_transactions' = r.rejected
            /\ user_balances' = r.balances
            /\ reply' = AdmissionCall("add_transaction", t, r.ok)
            /\ UNCHANGED <<chain, miner_vars, network_vars, thread_vars, registry_vars>>

\* Node.handle_new_transaction(transaction_data), its return value observed
CallHandleNewTransaction ==
    \E t \in TxPool :
        LET r == HandleNewTransaction(t, mining_thread, chain, pending_transactions,
                                      rejected_transactions, user_balances)
        IN  /\ Len(r.chain) <= MaxChain
            /\ Len(r.pending) <= MaxPending
            /\ RejectingCalls(r.rejected) <= MaxRejections
            /\ chain' = r.chain
            /\ pending_transactions' = r.pending
            /\ rejected_transactions' = r.rejected
            /\ user_balances' = r.balances
            /\ reply' = AdmissionCall("handle_new_transaction", t, r.ok)
            /\ UNCHANGED <<miner_vars, network_vars, thread_vars, registry_vars>>

\* GET /mine between the submissions
AdmissionMine == pending_transactions # << >> /\ MinePending

NextAdmission == CallAddTransaction \/ CallHandleNewTransaction \/ AdmissionMine

SpecAdmission == Init /\ [][NextAdmission]_vars

----------------------------------------------------------------------------
(* Blockchain.add_transaction called with transfers of accounts the ledger   *)
(* has not seen, some of them beyond the initial balance                     *)

\* the transactions submitted: carol is unknown until the first transfer sent by
\* carol, dave until the first sent to dave; 150 is more than a new account holds
OverdrawPool ==
    TxPool \cup { Tx("carol", "dave", 50, ClientTime, 1),
                  Tx("carol", "dave", 150, ClientTime, 1) }

\* Blockchain.add_transaction(t), its return value observed
CallAddOverdraw ==
    \E t \in OverdrawPool :
        LET r == LedgerAddTransaction(t, chain, pending_transactions,
                                      rejected_transactions, user_balances)
        IN  /\ Len(r.pending) <= MaxPending
            /\ RejectingCalls(r.rejected) <= MaxRejections
            /\ pending_transactions' = r.pending
            /\ rejected_transactions' = r.rejected
            /\ user_balances' = r.balances
            /\ reply' = AdmissionCall("add_transaction", t, r.ok)
            /\ UNCHANGED <<chain, miner_vars, network_vars, thread_vars, registry_vars>>

NextOverdraw == CallAddOverdraw \/ AdmissionMine

SpecOverdraw == Init /\ [][NextOverdraw]_vars

----------------------------------------------------------------------------
(* The mining thread step by step, beside the requests the node serves: no   *)
(* lock is taken anywhere in blockchain.py, node.py or api.py                *)

\* who can be inside mine_pending_transactions: the mining thread and GET /mine
Actors == {"loop", "request"}

\* the longest chain and pending pool explored with the threads
ThreadMaxChain == 3
ThreadMaxPending == 5

\* an actor that is not running
NotMining == [pc |-> "off"]

\* a loop that never looks at the flag
LoopForever(r) == TRUE

\* while self.running (Node._mine_continuously)
LoopContinues(r) == r

\* the reward transaction of the call of mine_pending_transactions by actor
ThreadReward(actor, c) ==
    Tx(SYSTEM, MinerAddress, MiningReward, Now(c),
       (IF actor = "loop" THEN 5 ELSE 6) * UuidBase + Len(c))

\* mine_pending_transactions up to the call of mine_block: the reward is appended
\* to the pending list and the Block takes the list object itself, the length of
\* the chain as index and the hash of the latest block
MiningBegun(actor, c, pend) ==
    [pc |-> "mine", index |-> Len(c), previous_hash |-> LatestBlock(c).hash,
     timestamp |-> Now(c), transactions |-> Append(pend, ThreadReward(actor, c)),
     hashed |-> Len(pend) + 1, aliased |-> TRUE]

\* the block a call of mine_pending_transactions appends: the proof of work was
\* found over the first h transactions of the list, the later ones were appended
\* to the shared list after the last calculate_hash
MinedByThread(m, h) ==
    [MineBlock(NewBlock(m.index, SubSeq(m.transactions, 1, h), m.timestamp,
                        m.previous_hash, 0, Difficulty))
        EXCEPT !.transactions = m.transactions]

\* pending_transactions.append(t): every block that holds the list object sees t
ListAppended(mi, t) ==
    [a \in DOMAIN mi |->
        IF mi[a].pc = "mine" /\ mi[a].aliased
        THEN [mi[a] EXCEPT !.transactions = Append(@, t)]
        ELSE mi[a]]

\* pending_transactions = [...]: the blocks being mined keep the old list object
ListRebound(mi) ==
    [a \in DOMAIN mi |->
        IF mi[a].pc = "mine" THEN [mi[a] EXCEPT !.aliased = FALSE] ELSE mi[a]]

InitThreads ==
    /\ chain = << GenesisBlock(GenesisTime) >>
    /\ pending_transactions = << >>
    /\ rejected_transactions = << >>
    /\ user_balances = << >>
    /\ reply = NoReply
    /\ mining_thread = "none"
    /\ running = FALSE
    /\ nodes = << >>
    /\ submissions_open = FALSE
    /\ mining = [a \in Actors |-> NotMining]
    /\ handlers = << >>
    /\ NoRegistry

\* Node.start_mining
ThreadStart ==
    /\ mining_thread # "alive"
    /\ running' = TRUE
    /\ mining_thread' = "alive"
    /\ mining' = [mining EXCEPT !["loop"] = [pc |-> "sleep"]]
    /\ UNCHANGED <<ledger_vars, reply, network_vars, handlers, registry_vars>>

\* Node.stop_mining
ThreadStop ==
    /\ running
    /\ running' = FALSE
    /\ UNCHANGED <<ledger_vars, reply, mining_thread, network_vars, thread_vars, registry_vars>>

\* Node._mine_continuously: the test of the while loop, after time.sleep
LoopTest ==
    /\ mining["loop"].pc = "sleep"
    /\ IF LoopContinues(running)
       THEN /\ mining' = [mining EXCEPT !["loop"] = [pc |-> "tick"]]
            /\ UNCHANGED mining_thread
       ELSE /\ mining' = [mining EXCEPT !["loop"] = NotMining]
            /\ mining_thread' = "dead"
    /\ UNCHANGED <<ledger_vars, reply, running, network_vars, handlers, registry_vars>>

\* Node._mine_continuously: the count of the pass; at exactly 3 the pass enters
\* mine_pending_transactions
LoopCount ==
    /\ mining["loop"].pc = "tick"
    /\ IF Len(NonSystem(pending_transactions)) = BlockSize
       THEN /\ pending_transactions' =
                   Append(pending_transactions, ThreadReward("loop", chain))
            /\ mining' = [ListAppended(mining, ThreadReward("loop", chain))
                             EXCEPT !["loop"] =
                                 MiningBegun("loop", chain, pending_transactions)]
       ELSE /\ mining' = [mining EXCEPT !["loop"] = [pc |-> "sleep"]]
            /\ UNCHANGED pending_transactions
    /\ UNCHANGED <<chain, rejected_transactions, user_balances, reply, miner_vars,
                   network_vars, handlers,
                   registry_vars>>

\* GET /mine up to the call of mine_block
RequestBegin ==
    /\ mining["request"].pc = "off"
    /\ pending_transactions # << >>
    /\ Len(chain) < ThreadMaxChain
    /\ Len(pending_transactions) < ThreadMaxPending
    /\ pending_transactions' =
           Append(pending_transactions, ThreadReward("request", chain))
    /\ mining' = [ListAppended(mining, ThreadReward("request", chain))
                     EXCEPT !["request"] =
                         MiningBegun("request", chain, pending_transactions)]
    /\ UNCHANGED <<chain, rejected_transactions, user_balances, reply, miner_vars,
                   network_vars, handlers,
                   registry_vars>>

\* mine_pending_transactions from the return of mine_block: the block is appended,
\* the balances are updated and the pending list is replaced by a new empty one
FinishMine(actor) ==
    /\ mining[actor].pc = "mine"
    /\ \E h \in mining[actor].hashed..Len(mining[actor].transactions) :
          LET block == MinedByThread(mining[actor], h)
          IN  /\ chain' = Append(chain, block)
              /\ user_balances' = UpdateBalances(user_balances, block)
    /\ pending_transactions' = << >>
    /\ mining' = [ListRebound(mining) EXCEPT
                     ![actor] = IF actor = "loop" THEN [pc |-> "sleep"] ELSE NotMining]
    /\ UNCHANGED <<rejected_transactions, reply, miner_vars, network_vars, handlers, registry_vars>>

LoopFinish == FinishMine("loop")
RequestFinish == FinishMine("request")

\* the bodies one client posts, one after the other
ClientScript ==
    << <<"alice", "bob", 10>>, <<"alice", "bob", 20>>, <<"bob", "alice", 10>>,
       <<"alice", "carol", 10>> >>

\* the bodies of the script the node does not hold yet
NotHeld(c, pend) ==
    { i \in 1..Len(ClientScript) :
        \A t \in SeqTxs(pend) \cup AllChainTxs(c) : TxTriple(t) # ClientScript[i] }

\* POST /transactions/new while blocks are being mined
SubmitBeside ==
    /\ NotHeld(chain, pending_transactions) # {}
    /\ LET i == CHOOSE k \in NotHeld(chain, pending_transactions) :
                    \A j \in NotHeld(chain, pending_transactions) : k <= j
           t == PostedTransaction(ClientScript[i], "n1", chain)
           r == LedgerAddTransaction(t, chain, pending_transactions,
                                     rejected_transactions, user_balances)
       IN  /\ Len(r.pending) <= ThreadMaxPending - 1
           /\ RejectingCalls(r.rejected) <= MaxRejections
           /\ pending_transactions' = r.pending
           /\ rejected_transactions' = r.rejected
           /\ user_balances' = r.balances
           /\ mining' = IF r.ok THEN ListAppended(mining, t) ELSE mining
    /\ UNCHANGED <<chain, reply, miner_vars, network_vars, handlers, registry_vars>>

\* the blocks and chains of a peer that mined on top of chain c
BesideBlocks(c) ==
    { PeerBlock(LatestBlock(c).index + 1, LatestBlock(c).hash,
                << PeerReward(LatestBlock(c).index + 1) >>) }

\* POST /blocks/new while blocks are being mined
DeliverBeside ==
    \E block_data \in BesideBlocks(chain) :
        LET r == HandleNewBlock(block_data, << >>, chain, pending_transactions,
                                user_balances)
        IN  /\ Len(r.chain) <= ThreadMaxChain
            /\ chain' = r.chain
            /\ pending_transactions' = r.pending
            /\ user_balances' = r.balances
            /\ mining' = IF r.branch = "append" THEN ListRebound(mining) ELSE mining
            /\ UNCHANGED <<rejected_transactions, reply, miner_vars, network_vars,
                           handlers,
                   registry_vars>>

\* GET /nodes/resolve while blocks are being mined
ResolveBeside ==
    \E responses \in { << [chain |-> Grown(chain, 1), length |-> Len(chain) + 1] >> } :
        LET r == Consensus(responses, chain, pending_transactions, user_balances)
        IN  /\ Len(r.chain) <= ThreadMaxChain
            /\ chain' = r.chain
            /\ pending_transactions' = r.pending
            /\ user_balances' = r.balances
            /\ mining' = IF r.ok THEN ListRebound(mining) ELSE mining
            /\ UNCHANGED <<rejected_transactions, reply, miner_vars, network_vars,
                           handlers,
                   registry_vars>>

NextThreads ==
    \/ ThreadStart
    \/ ThreadStop
    \/ LoopTest
    \/ LoopCount
    \/ LoopFinish
    \/ RequestBegin
    \/ RequestFinish
    \/ SubmitBeside
    \/ DeliverBeside
    \/ ResolveBeside

SpecThreads == InitThreads /\ [][NextThreads]_vars

\* the mining thread is scheduled again and again and mine_block returns:
\* WF_vars of LoopTest, LoopCount and LoopFinish, the last written out with its
\* enabling condition
SpecThreadsFair ==
    /\ SpecThreads
    /\ WF_vars(LoopTest)
    /\ WF_vars(LoopCount)
    /\ ([]<>(mining["loop"].pc # "mine") \/ []<><<LoopFinish>>_vars)

----------------------------------------------------------------------------
(* Gossip: one client submission and the blocks mined from it, in a network  *)
(* of three mutually registered nodes                                        *)

GossipNodes == {"n1", "n2", "n3"}

\* Node.registered_nodes of node n, in the order of the configuration file
PeersOf(n) == SelectSeq(<< "n1", "n2", "n3" >>, LAMBDA m : m # n)

\* the most messages followed in the network
GossipMaxMessages == 6

\* the construction time of node n
NodeGenesisTime(n) == CASE n = "n1" -> 0 [] n = "n2" -> 5 [] OTHER -> 6

\* a handler that forwards whatever it admits
ForwardsAlways(success, source_type) == success

\* api.new_transaction: is_api_call is X-Source-Type != 'node_broadcast', and the
\* transaction is broadcast only when admitted and is_api_call
Forwards(success, source_type) == success /\ source_type # "node_broadcast"

\* Node.broadcast_transaction and Node.broadcast_block of node n: one POST with
\* X-Source-Type node_broadcast to each peer of act, the active peers
Broadcast(kind, n, act, payload) ==
    LET to == SelectSeq(PeersOf(n), LAMBDA m : m \in act)
    IN  [i \in 1..Len(to) |->
            [kind |-> kind, from |-> n, to |-> to[i], payload |-> payload,
             source_type |-> "node_broadcast", done |-> FALSE]]

\* api.get_chain of the peers of node n, as Node.consensus of n reads them
PeerChainResponses(ns, n) ==
    [i \in 1..Len(PeersOf(n)) |->
        [chain |-> ns[PeersOf(n)[i]].chain, length |-> Len(ns[PeersOf(n)[i]].chain)]]

InitGossip ==
    /\ nodes = [n \in GossipNodes |-> NodeLedger(NodeGenesisTime(n))]
    /\ submissions_open = TRUE
    /\ handlers = << >>
    /\ NoRegistry
    /\ chain = << GenesisBlock(GenesisTime) >>
    /\ pending_transactions = << >>
    /\ rejected_transactions = << >>
    /\ user_balances = << >>
    /\ reply = NoReply
    /\ mining_thread = "none"
    /\ running = FALSE
    /\ mining = << >>

\* api.new_transaction on node n for a request with X-Source-Type source_type
TransactionHandled(n, body, source_type, act) ==
    LET me == nodes[n]
        r  == LedgerAddTransaction(PostedTransaction(body, n, me.chain), me.chain,
                                   me.pending, me.rejected, me.balances)
    IN  /\ nodes' = [nodes EXCEPT ![n] = [me EXCEPT !.pending = r.pending,
                                                    !.rejected = r.rejected,
                                                    !.balances = r.balances]]
        /\ handlers' =
              [i \in 1..Len(handlers) |->
                  IF /\ handlers[i].to = n
                     /\ handlers[i].kind = "transaction"
                     /\ handlers[i].payload = body
                     /\ handlers[i].source_type = source_type
                  THEN [handlers[i] EXCEPT !.done = TRUE] ELSE handlers[i]]
              \o (IF Forwards(r.ok, source_type)
                  THEN Broadcast("transaction", n, act, body) ELSE << >>)

\* the client posts its one transaction to node n, without the header
ClientSubmits(n) ==
    /\ submissions_open
    /\ submissions_open' = FALSE
    /\ \E body \in PostedBodies, act \in SUBSET GossipNodes :
          TransactionHandled(n, body, "client", act)
    /\ UNCHANGED <<ledger_vars, reply, miner_vars, mining, registry_vars>>

\* a POST /transactions/new of a peer reaches node n
TransactionArrives(n) ==
    /\ \E i \in 1..Len(handlers), act \in SUBSET GossipNodes :
          /\ handlers[i].to = n
          /\ handlers[i].kind = "transaction"
          /\ ~handlers[i].done
          /\ TransactionHandled(n, handlers[i].payload, handlers[i].source_type, act)
          /\ Len(handlers') = Len(handlers) \/ Len(handlers') <= GossipMaxMessages
    /\ UNCHANGED <<ledger_vars, reply, miner_vars, submissions_open, mining, registry_vars>>

\* GET /mine on node n: the block is mined and broadcast
GossipMine(n) ==
    /\ nodes[n].pending # << >>
    /\ Len(nodes[n].chain) < MaxChain
    /\ Len(handlers) < GossipMaxMessages
    /\ \E act \in SUBSET GossipNodes :
          LET me == nodes[n]
              block == MinedBlock(MiningAddress(n), me.chain, me.pending, Difficulty)
          IN  /\ nodes' = [nodes EXCEPT ![n] =
                              [me EXCEPT !.chain = Append(me.chain, block),
                                         !.balances = UpdateBalances(me.balances, block),
                                         !.pending = << >>]]
              /\ handlers' = handlers \o Broadcast("block", n, act, block)
    /\ UNCHANGED <<ledger_vars, reply, miner_vars, submissions_open, mining, registry_vars>>

\* a POST /blocks/new of a peer reaches node n: api.new_block, Node.handle_new_block
BlockArrives(n) ==
    /\ \E i \in 1..Len(handlers) :
          /\ handlers[i].to = n
          /\ handlers[i].kind = "block"
          /\ ~handlers[i].done
          /\ LET me == nodes[n]
                 r == HandleNewBlock(handlers[i].payload, PeerChainResponses(nodes, n),
                                     me.chain, me.pending, me.balances)
             IN  /\ nodes' = [nodes EXCEPT ![n] = [me EXCEPT !.chain = r.chain,
                                                             !.pending = r.pending,
                                                             !.balances = r.balances]]
                 /\ handlers' = [handlers EXCEPT ![i].done = TRUE]
    /\ UNCHANGED <<ledger_vars, reply, miner_vars, submissions_open, mining, registry_vars>>

Posts == \E n \in GossipNodes : ClientSubmits(n)
Forwarded == \E n \in GossipNodes : TransactionArrives(n)
GossipMines == \E n \in GossipNodes : GossipMine(n)
BlocksArrive == \E n \in GossipNodes : BlockArrives(n)

NextGossip == Posts \/ Forwarded \/ GossipMines \/ BlocksArrive

\* no POST is on its way
AllHandled == \A i \in 1..Len(handlers) : handlers[i].done

\* every POST that was sent reaches its handler: WF_vars(Forwarded \/ BlocksArrive),
\* written out with the enabling condition of the two actions
SpecGossip ==
    /\ InitGossip
    /\ [][NextGossip]_vars
    /\ ([]<>AllHandled \/ []<><<Forwarded \/ BlocksArrive>>_vars)

----------------------------------------------------------------------------
(* The peers of a node: the list it keeps in its configuration file and the  *)
(* table of the times it last heard of each                                  *)

\* Node.activity_timeout, in seconds
ActivityTimeout == 300

\* the seconds that pass between two observations, and the latest time observed
TickStep == 150
MaxClock == 600

\* the node itself: started on localhost:5001, no external ip
SelfHost == "localhost"
SelfPort == 5001

\* the port of the default configuration's primary node, and of a URL without port
PrimaryPort == 5000
UrlDefaultPort == 80

\* the most peers the list grows to
MaxPeers == 4

\* Node._normalize_host, on a node whose external_ip is None
NormalizeHost(host) ==
    IF host \in {"localhost", "127.0.0.1"} THEN "localhost" ELSE host

\* int(text): the number a port text denotes, or a ValueError
IntOf(text) ==
    CASE text = "80"   -> [ok |-> TRUE, value |-> 80]
      [] text = "5000" -> [ok |-> TRUE, value |-> 5000]
      [] text = "5001" -> [ok |-> TRUE, value |-> 5001]
      [] OTHER         -> [ok |-> FALSE, value |-> 0]

\* the URLs handed to register_node, as urlparse splits their netloc at ':'; a
\* netloc without ':' has no_port
Url(host, text) == [host |-> host, has_port |-> TRUE, port |-> text]
UrlWithoutPort(host) == [host |-> host, has_port |-> FALSE, port |-> ""]

Urls ==
    { Url("localhost", "5000"), Url("127.0.0.1", "5000"), Url("10.0.0.2", "5000"),
      Url("localhost", "5001"), Url("127.0.0.1", "5001"), Url("10.0.0.2", "abc"),
      UrlWithoutPort("10.0.0.2") }

\* f"{host}:{port}"
NodeKey(host, port) == <<host, port>>

\* the entry register_node appends
NewNode(host, port) ==
    [host |-> host, port |-> port, name |-> <<"Node", host, port>>,
     node_type |-> "unknown"]

\* some entry of the list has this host and port
Registered(reg, host, port) ==
    \E i \in 1..Len(reg) : reg[i].host = host /\ reg[i].port = port

\* Node.register_node(node_url) on the list reg; saved tells whether the file
\* could be written
RegisterNode(url, reg, file, saved) ==
    LET host == NormalizeHost(url.host)
        p    == IntOf(IF url.has_port THEN url.port ELSE "80")
        port == p.value
    IN  IF ~p.ok
        THEN [ok |-> FALSE, registered |-> reg, file |-> file]
        ELSE IF host = SelfHost /\ port = SelfPort
        THEN [ok |-> FALSE, registered |-> reg, file |-> file]
        ELSE IF Registered(reg, host, port)
        THEN [ok |-> TRUE, registered |-> reg, file |-> file]
        ELSE LET appended == Append(reg, NewNode(host, port))
             IN  [ok |-> saved, registered |-> appended,
                  file |-> IF saved THEN appended ELSE file]

\* the first entry of the list with this host and port
FirstEntry(reg, host, port) ==
    CHOOSE i \in 1..Len(reg) :
        /\ reg[i].host = host /\ reg[i].port = port
        /\ \A j \in 1..(i - 1) : ~(reg[j].host = host /\ reg[j].port = port)

\* Node.record_active_node(host, port, node_type, name) at time now
RecordActiveNode(host, port, node_type, name, reg, file, act, now, saved) ==
    LET heard == [k \in DOMAIN act \cup {NodeKey(host, port)} |->
                     IF k = NodeKey(host, port) THEN now ELSE act[k]]
        upserted ==
            IF Registered(reg, host, port)
            THEN [reg EXCEPT ![FirstEntry(reg, host, port)] =
                     [@ EXCEPT !.node_type = node_type, !.name = name]]
            ELSE Append(reg, [host |-> host, port |-> port, name |-> name,
                              node_type |-> node_type])
    IN  [ok |-> TRUE, registered |-> upserted, active |-> heard,
         file |-> IF saved THEN upserted ELSE file]

\* a status check that counts every announcement, however old
HeardEver(act, key, now) == key \in DOMAIN act

\* the test of check_node_status for a recent announcement
HeardRecently(act, key, now) ==
    key \in DOMAIN act /\ (now - act[key]) < ActivityTimeout

\* Node.check_node_status(host, port, force_check) at time now; responds tells
\* whether GET /nodes/info of the peer answers 200
CheckNodeStatus(host, port, force_check, responds, act, now) ==
    LET key == NodeKey(host, port)
    IN  IF host = SelfHost /\ port = SelfPort
        THEN [ok |-> TRUE, active |-> act]
        ELSE IF HeardRecently(act, key, now)
        THEN [ok |-> TRUE, active |-> act]
        ELSE IF force_check /\ responds
        THEN [ok |-> TRUE,
              active |-> [k \in DOMAIN act \cup {key} |-> IF k = key THEN now ELSE act[k]]]
        ELSE [ok |-> FALSE, active |-> act]

\* Node.__init__ without a configuration file: _load_registered_nodes writes the
\* default one
DefaultNodes ==
    << [host |-> "localhost", port |-> PrimaryPort, name |-> "Primary Node",
        node_type |-> "full"] >>

InitRegistry ==
    /\ chain = << GenesisBlock(GenesisTime) >>
    /\ pending_transactions = << >>
    /\ rejected_transactions = << >>
    /\ user_balances = << >>
    /\ reply = NoReply
    /\ mining_thread = "none"
    /\ running = FALSE
    /\ mining = << >>
    /\ handlers = << >>
    /\ nodes = << >>
    /\ submissions_open = FALSE
    /\ registered_nodes = DefaultNodes
    /\ config_file = DefaultNodes
    /\ active_nodes = << >>
    /\ clock = 0

\* POST /nodes/register with one URL, and the register command of the client
Register ==
    /\ \E url \in Urls, saved \in BOOLEAN :
          LET r == RegisterNode(url, registered_nodes, config_file, saved)
          IN  /\ Len(r.registered) <= MaxPeers
              /\ registered_nodes' = r.registered
              /\ config_file' = r.file
              /\ reply' = [op |-> "register_node", url |-> url, ok |-> r.ok]
    /\ UNCHANGED <<ledger_vars, miner_vars, network_vars, thread_vars, active_nodes,
                   clock>>

\* the nodes that announce themselves or are named in an announcement: the
\* primary node, a node on another machine, and this node itself
Announced == { <<"localhost", PrimaryPort>>, <<"10.0.0.2", PrimaryPort>>,
               <<SelfHost, SelfPort>> }

\* POST /nodes/announce: record_active_node for the announcing node, the file
\* being writable
RecordActive ==
    /\ \E peer \in Announced, saved \in {TRUE} :
          LET r == RecordActiveNode(peer[1], peer[2], "miner",
                                    <<"Node", peer[1], peer[2]>>, registered_nodes,
                                    config_file, active_nodes, clock, saved)
          IN  /\ Len(r.registered) <= MaxPeers
              /\ registered_nodes' = r.registered
              /\ config_file' = r.file
              /\ active_nodes' = r.active
              /\ reply' = [op |-> "record_active_node", host |-> peer[1],
                           port |-> peer[2], ok |-> r.ok]
    /\ UNCHANGED <<ledger_vars, miner_vars, network_vars, thread_vars, clock>>

\* Node.get_active_nodes: check_node_status for an entry of the list
CheckStatus ==
    /\ \E i \in 1..Len(registered_nodes), force_check \in BOOLEAN, responds \in BOOLEAN :
          LET host == registered_nodes[i].host
              port == registered_nodes[i].port
              r == CheckNodeStatus(host, port, force_check, responds, active_nodes, clock)
          IN  /\ active_nodes' = r.active
              /\ reply' = [op |-> "check_node_status", host |-> host, port |-> port,
                           force_check |-> force_check, responds |-> responds,
                           known |-> NodeKey(host, port) \in DOMAIN active_nodes,
                           last |-> IF NodeKey(host, port) \in DOMAIN active_nodes
                                    THEN active_nodes[NodeKey(host, port)] ELSE 0,
                           now |-> clock, ok |-> r.ok]
    /\ UNCHANGED <<ledger_vars, miner_vars, network_vars, thread_vars,
                   registered_nodes, config_file, clock>>

\* time passes
Tick ==
    /\ clock + TickStep <= MaxClock
    /\ clock' = clock + TickStep
    /\ UNCHANGED <<ledger_vars, reply, miner_vars, network_vars, thread_vars,
                   registered_nodes, config_file, active_nodes>>

\* the peer list under registrations and announcements
NextRegistry == Register \/ RecordActive

SpecRegistry == InitRegistry /\ [][NextRegistry]_vars

\* the table of the times last heard of under announcements, status checks and
\* the passing of time
NextActivity == RecordActive \/ CheckStatus \/ Tick

SpecActivity == InitRegistry /\ [][NextActivity]_vars

----------------------------------------------------------------------------
(* Two requests POST /transactions/new served at the same time: Flask runs   *)
(* each handler in a thread of its own and add_transaction takes no lock     *)

HandlerIds == {"h1", "h2"}

\* the (sender, recipient, amount) bodies of the two requests
HandlerBodies == { <<"alice", "bob", 70>>, <<"alice", "carol", 70>>, <<"alice", "bob", 30>> }

\* api.new_transaction: the Transaction handler h builds from the body
HandlerTransaction(h, body, c) ==
    Tx(body[1], body[2], body[3], Now(c), (IF h = "h1" THEN 7 ELSE 8) * UuidBase + Len(c))

\* a handler that has no request
Idle == [pc |-> "idle"]

InitHandlers ==
    /\ chain = << GenesisBlock(GenesisTime) >>
    /\ pending_transactions = << >>
    /\ rejected_transactions = << >>
    /\ user_balances = << >>
    /\ reply = NoReply
    /\ mining_thread = "none"
    /\ running = FALSE
    /\ mining = << >>
    /\ handlers = [h \in HandlerIds |-> Idle]
    /\ nodes = << >>
    /\ submissions_open = FALSE
    /\ NoRegistry

\* handler h moves to position pc
At(h, pc) == [handlers EXCEPT ![h].pc = pc]

\* the request arrives: the handler builds the transaction and calls add_transaction
HandlerEnters(h) ==
    /\ handlers[h].pc = "idle"
    /\ \E body \in HandlerBodies :
          handlers' = [handlers EXCEPT ![h] =
                          [pc |-> "duplicate",
                           transaction |-> HandlerTransaction(h, body, chain)]]
    /\ UNCHANGED <<ledger_vars, reply, miner_vars, network_vars, mining, registry_vars>>

\* add_transaction: the test _is_duplicate_transaction and, for a duplicate, the
\* rejection
HandlerTestsDuplicate(h) ==
    /\ handlers[h].pc = "duplicate"
    /\ IF IsDuplicateTransaction(handlers[h].transaction, pending_transactions, chain)
       THEN /\ rejected_transactions' =
                   RejectTransaction(rejected_transactions, handlers[h].transaction,
                                     DuplicateReason, chain)
            /\ handlers' = [handlers EXCEPT ![h] = [@ EXCEPT !.pc = "done"] @@ [ok |-> FALSE]]
       ELSE /\ handlers' = At(h, "valid")
            /\ UNCHANGED rejected_transactions
    /\ UNCHANGED <<chain, pending_transactions, user_balances, reply, miner_vars,
                   network_vars, mining, registry_vars>>

\* _is_transaction_valid up to the test of the sender's balance: the accounts are
\* initialised, and an overspend is recorded with the balance and the amount
HandlerTestsFunds(h) ==
    /\ handlers[h].pc = "valid"
    /\ LET t  == handlers[h].transaction
           b1 == InitAccount(user_balances, t.sender, InitialBalance)
           b2 == InitAccount(b1, t.recipient, 0)
       IN  /\ user_balances' = b2
           /\ IF ~HasFunds(b2[t.sender], t.amount)
              THEN /\ rejected_transactions' =
                          RejectTransaction(rejected_transactions, t,
                                            InsufficientDetail(b2[t.sender], t.amount),
                                            chain)
                   /\ handlers' = At(h, "invalid")
              ELSE /\ handlers' = At(h, "debit")
                   /\ UNCHANGED rejected_transactions
    /\ UNCHANGED <<chain, pending_transactions, reply, miner_vars, network_vars, mining,
                   registry_vars>>

\* add_transaction after _is_transaction_valid returned False
HandlerRejects(h) ==
    /\ handlers[h].pc = "invalid"
    /\ rejected_transactions' =
           RejectTransaction(rejected_transactions, handlers[h].transaction,
                             InsufficientReason, chain)
    /\ handlers' = [handlers EXCEPT ![h] = [@ EXCEPT !.pc = "done"] @@ [ok |-> FALSE]]
    /\ UNCHANGED <<chain, pending_transactions, user_balances, reply, miner_vars,
                   network_vars, mining, registry_vars>>

\* _is_transaction_valid after the test: the sender is debited and the recipient
\* credited
HandlerDebits(h) ==
    /\ handlers[h].pc = "debit"
    /\ LET t == handlers[h].transaction
       IN  user_balances' =
               [[user_balances EXCEPT ![t.sender] = @ - t.amount]
                    EXCEPT ![t.recipient] = @ + t.amount]
    /\ handlers' = At(h, "append")
    /\ UNCHANGED <<chain, pending_transactions, rejected_transactions, reply,
                   miner_vars, network_vars, mining, registry_vars>>

\* add_transaction: pending_transactions.append(transaction); return True
HandlerAppends(h) ==
    /\ handlers[h].pc = "append"
    /\ pending_transactions' = Append(pending_transactions, handlers[h].transaction)
    /\ handlers' = [handlers EXCEPT ![h] = [@ EXCEPT !.pc = "done"] @@ [ok |-> TRUE]]
    /\ UNCHANGED <<chain, rejected_transactions, user_balances, reply, miner_vars,
                   network_vars, mining, registry_vars>>

Enters == \E h \in HandlerIds : HandlerEnters(h)
TestsDuplicate == \E h \in HandlerIds : HandlerTestsDuplicate(h)
TestsFunds == \E h \in HandlerIds : HandlerTestsFunds(h)
Rejects == \E h \in HandlerIds : HandlerRejects(h)
Debits == \E h \in HandlerIds : HandlerDebits(h)
Appends == \E h \in HandlerIds : HandlerAppends(h)

NextHandlers == Enters \/ TestsDuplicate \/ TestsFunds \/ Rejects \/ Debits \/ Appends

SpecHandlers == InitHandlers /\ [][NextHandlers]_vars

----------------------------------------------------------------------------
(* The single-server ledger (blockchain-workshop/server): create_user,        *)
(* add_transaction and reset on one Blockchain object.  Its fields chain and *)
(* pending_transactions are the variables of those names, balances is        *)
(* user_balances and invalid_transactions is rejected_transactions; reply    *)
(* keeps the call that returned last.                                        *)

\* amounts and balances are Python floats: a finite number, or nan
Float(x) == [finite |-> TRUE, value |-> x]
NaN == [finite |-> FALSE, value |-> 0]

\* a < b, a <= b, a + b, a - b on floats: every comparison with nan is False and
\* every sum with nan is nan
FloatLess(a, b) == a.finite /\ b.finite /\ a.value < b.value
FloatLessEq(a, b) == a.finite /\ b.finite /\ a.value <= b.value
FloatAdd(a, b) == IF a.finite /\ b.finite THEN Float(a.value + b.value) ELSE NaN
FloatSub(a, b) == IF a.finite /\ b.finite THEN Float(a.value - b.value) ELSE NaN

\* create_user: balances[username] = 100.0
StartingBalance == 100

\* add_transaction: a block is created once 3 transactions are pending
ServerBlockSize == 3

\* the transactions in the blocks of chain c
RECURSIVE ServerChainTxs(_)
ServerChainTxs(c) ==
    IF c = << >> THEN << >> ELSE ServerChainTxs(SubSeq(c, 1, Len(c) - 1)) \o c[Len(c)].transactions

\* datetime.utcnow().timestamp() of the next Transaction: the clock has moved since
\* the transaction before
ServerNow(c, pend, inv) == Len(ServerChainTxs(c)) + Len(pend) + Len(inv) + 1

\* Transaction(source, recipient, amount) and Transaction.to_dict
ServerTx(source, recipient, amount, ts) ==
    [source |-> source, recipient |-> recipient, amount |-> amount, timestamp |-> ts,
     is_valid |-> TRUE, validation_error |-> << >>]

\* transaction.is_valid = False; transaction.validation_error = error
Invalidated(t, error) == [t EXCEPT !.is_valid = FALSE, !.validation_error = error]

\* Blockchain._hash_block: the digest of the JSON text of its argument
ServerHashBlock(block) == << block >>

\* Blockchain.reset: the genesis block
ServerGenesis ==
    [index |-> 1, timestamp |-> 0, transactions |-> << >>, previous_hash |-> << >>,
     hash |-> ServerHashBlock("genesis")]

\* Blockchain.get_latest_block_hash
ServerLatestHash(c) == IF c = << >> THEN << >> ELSE c[Len(c)].hash

\* a create_block that leaves the pending list as it is
CreateBlockKeepsPending(c, pend) ==
    LET block == [index |-> Len(c) + 1, timestamp |-> Len(c), transactions |-> pend,
                  previous_hash |-> ServerLatestHash(c), hash |-> << >>]
    IN  [chain |-> Append(c, [block EXCEPT !.hash = ServerHashBlock(block)]),
         pending |-> pend]

\* Blockchain.create_block: the chain and the pending list it leaves
ServerCreateBlock(c, pend) ==
    IF pend = << >>
    THEN [chain |-> c, pending |-> pend]
    ELSE LET block == [index |-> Len(c) + 1, timestamp |-> Len(c), transactions |-> pend,
                       previous_hash |-> ServerLatestHash(c), hash |-> << >>]
         IN  [chain |-> Append(c, [block EXCEPT !.hash = ServerHashBlock(block)]),
              pending |-> << >>]

\* the validation of add_transaction once both users are known: the error, or << >>
ValidationError(source, recipient, amount, bal) ==
    IF source = recipient THEN <<"Source and recipient cannot be the same">>
    ELSE IF FloatLessEq(amount, Float(0)) THEN <<"Invalid amount", amount>>
    ELSE IF FloatLess(bal[source], amount)
         THEN <<"Insufficient balance", source, bal[source], amount>>
    ELSE << >>

\* Blockchain.add_transaction(source, recipient, amount) on the ledger
\* (c, pend, bal, inv): the ledger after the call and the value returned
ServerAddTransaction(source, recipient, amount, c, pend, bal, inv) ==
    LET transaction == ServerTx(source, recipient, amount, ServerNow(c, pend, inv))
        refused(error) ==
            [ok |-> FALSE, chain |-> c, pending |-> pend, balances |-> bal,
             invalid |-> Append(inv, Invalidated(transaction, error))]
    IN  IF source \notin DOMAIN bal
        THEN refused(<<"Source user does not exist", source>>)
        ELSE IF recipient \notin DOMAIN bal
        THEN refused(<<"Recipient user does not exist", recipient>>)
        ELSE IF ValidationError(source, recipient, amount, bal) # << >>
        THEN refused(ValidationError(source, recipient, amount, bal))
        ELSE LET b1 == [bal EXCEPT ![source] = FloatSub(@, amount)]
                 b2 == [b1 EXCEPT ![recipient] = FloatAdd(@, amount)]
                 appended == Append(pend, transaction)
                 made == IF Len(appended) >= ServerBlockSize
                         THEN ServerCreateBlock(c, appended)
                         ELSE [chain |-> c, pending |-> appended]
             IN  [ok |-> TRUE, chain |-> made.chain, pending |-> made.pending,
                  balances |-> b2, invalid |-> inv]

\* the usernames POST /users/create is given and the parties of the transfers:
\* carol is never created
ServerUsers == {"alice", "bob"}
ServerParties == {"alice", "bob", "carol"}

\* float(data['amount']) of the bodies posted: zero, more than half a starting
\* balance (a second such transfer overdraws), and nan
ServerAmounts == {Float(0), Float(60), NaN}

\* the longest chain and invalid list explored with every amount: the blocks are
\* followed with BlocksMaxChain
ServerMaxChain == 1
ServerMaxInvalid == 1

\* the amount of the transfers and the longest chain explored when blocks are
\* followed one after the other
BlocksAmounts == {Float(10)}
BlocksMaxChain == 3

\* Blockchain.__init__: reset() on an empty object
InitServer ==
    /\ chain = << ServerGenesis >>
    /\ pending_transactions = << >>
    /\ user_balances = << >>
    /\ rejected_transactions = << >>
    /\ reply = NoReply
    /\ mining_thread = "none"
    /\ running = FALSE
    /\ nodes = << >>
    /\ submissions_open = FALSE
    /\ mining = << >>
    /\ handlers = << >>
    /\ NoRegistry

\* POST /reset: Blockchain.reset
ServerReset ==
    /\ chain' = << ServerGenesis >>
    /\ pending_transactions' = << >>
    /\ user_balances' = << >>
    /\ rejected_transactions' = << >>
    /\ reply' = [op |-> "reset"]
    /\ UNCHANGED <<miner_vars, network_vars, thread_vars, registry_vars>>

\* POST /users/create: Blockchain.create_user(username)
ServerCreateUser ==
    \E username \in ServerUsers \cup {""} :
        /\ IF username = "" \/ username \in DOMAIN user_balances
           THEN /\ reply' = [op |-> "create_user", ok |-> FALSE]
                /\ UNCHANGED user_balances
           ELSE /\ reply' = [op |-> "create_user", ok |-> TRUE]
                /\ user_balances' = SetBalance(user_balances, username,
                                               Float(StartingBalance))
        /\ UNCHANGED <<chain, pending_transactions, rejected_transactions, miner_vars,
                       network_vars, thread_vars, registry_vars>>

\* POST /transactions/new: Blockchain.add_transaction, with amounts drawn from
\* amounts and chains of at most max blocks
ServerCalls(amounts, max, maxinvalid) ==
    \E source \in ServerParties, recipient \in ServerParties, amount \in amounts :
        LET r == ServerAddTransaction(source, recipient, amount, chain,
                                      pending_transactions, user_balances,
                                      rejected_transactions)
        IN  /\ Len(r.chain) <= max
            /\ Len(r.invalid) <= maxinvalid
            /\ chain' = r.chain
            /\ pending_transactions' = r.pending
            /\ user_balances' = r.balances
            /\ rejected_transactions' = r.invalid
            /\ reply' = [op |-> "add_transaction", ok |-> r.ok,
                         invalid_before |-> Len(rejected_transactions)]
            /\ UNCHANGED <<miner_vars, network_vars, thread_vars, registry_vars>>

ServerAdd == ServerCalls(ServerAmounts, ServerMaxChain, ServerMaxInvalid)

BlocksAdd == ServerCalls(BlocksAmounts, BlocksMaxChain, ServerMaxInvalid)

NextServer == ServerCreateUser \/ ServerAdd \/ ServerReset

SpecServer == InitServer /\ [][NextServer]_vars

NextServerBlocks == ServerCreateUser \/ BlocksAdd \/ ServerReset

SpecServerBlocks == InitServer /\ [][NextServerBlocks]_vars

----------------------------------------------------------------------------
(* Vocabulary of the properties *)

\* the transactions of the blocks of c, in chain order, as one sequence
RECURSIVE ChainTxSeq(_, _)
ChainTxSeq(c, i) ==
    IF i > Len(c) THEN << >> ELSE c[i].transactions \o ChainTxSeq(c, i + 1)

\* the sum of the amounts of the transactions of txs that a receives
RECURSIVE Received(_, _)
Received(txs, a) ==
    IF txs = << >> THEN 0
    ELSE (IF Head(txs).recipient = a THEN Head(txs).amount ELSE 0) + Received(Tail(txs), a)

\* the sum of the amounts of the transactions of txs that a sends
RECURSIVE Sent(_, _)
Sent(txs, a) ==
    IF txs = << >> THEN 0
    ELSE (IF Head(txs).sender = a THEN Head(txs).amount ELSE 0) + Sent(Tail(txs), a)

\* the sum of all balances
RECURSIVE SumBalances(_, _)
SumBalances(bal, accts) ==
    IF accts = {} THEN 0
    ELSE LET a == CHOOSE x \in accts : TRUE
         IN  bal[a] + SumBalances(bal, accts \ {a})

\* every account a transaction of the chain, of pending or a balance names
KnownAccounts ==
    (DOMAIN user_balances
       \cup {t.sender : t \in AllChainTxs(chain) \cup SeqTxs(pending_transactions)}
       \cup {t.recipient : t \in AllChainTxs(chain) \cup SeqTxs(pending_transactions)})
    \ {SYSTEM}

\* the accounts that sent a transaction of the chain or of pending
SendersSeen ==
    {t.sender : t \in AllChainTxs(chain) \cup SeqTxs(pending_transactions)} \ {SYSTEM}

OwnGenesis == GenesisBlock(GenesisTime)

\* the step is an add_transaction(t) that returned True
AddAdmits(t) ==
    /\ pending_transactions' = Append(pending_transactions, t)
    /\ chain' = chain

\* the step is an add_transaction(t) that returned False
AddRejects(t) ==
    /\ Len(rejected_transactions') > Len(rejected_transactions)
    /\ rejected_transactions'[Len(rejected_transactions')].transaction = t

----------------------------------------------------------------------------
(* C1: after any sequence of AddTransaction, MinePending, HandleNewBlock and     *)
(* ReplaceChain/Consensus, chain[0] is the node's genesis block and every later  *)
(* block links to the hash of its predecessor and is well-formed (stored hash =  *)
(* recomputed hash, with the required leading zeros).                            *)
C1_ChainIntegrity ==
    /\ chain[1] = OwnGenesis
    /\ \A i \in 2..Len(chain) :
          /\ chain[i].previous_hash = chain[i-1].hash
          /\ IsHashValid(chain[i])

(* C2: every non-system transaction of every chain block is admissible when the  *)
(* balances are replayed from the start of the chain, a sender being credited    *)
(* 100 when it first sends and a recipient starting at 0: no replayed sender     *)
(* balance is below the amount it sends.  (The replay credits the 100 even to a  *)
(* sender that received funds before it first sent: the reading under which the  *)
(* fewest chains are inadmissible.)                                              *)
RECURSIVE Admissible(_, _, _)
Admissible(txs, bal, credited) ==
    IF txs = << >> THEN TRUE
    ELSE LET t  == Head(txs)
             b1 == InitAccount(InitAccount(bal, t.sender, 0), t.recipient, 0)
         IN  IF t.sender = SYSTEM
             THEN Admissible(Tail(txs), [b1 EXCEPT ![t.recipient] = @ + t.amount], credited)
             ELSE LET b2 == IF t.sender \in credited THEN b1
                            ELSE [b1 EXCEPT ![t.sender] = @ + InitialBalance]
                      b3 == [b2 EXCEPT ![t.sender] = @ - t.amount]
                  IN  /\ b2[t.sender] >= t.amount
                      /\ Admissible(Tail(txs), [b3 EXCEPT ![t.recipient] = @ + t.amount],
                                    credited \cup {t.sender})

C2_ChainAdmissible == Admissible(ChainTxSeq(chain, 1), << >>, {})

(* C3: after every public operation, for every account a, balances[a] is the sum *)
(* of the amounts of the chain and pending transactions a receives, minus the    *)
(* sum of those a sends, plus 100 if a sent an admitted transaction.             *)
C3_BalanceFormula ==
    \A a \in KnownAccounts :
        LET all == ChainTxSeq(chain, 1) \o pending_transactions
        IN  GetBalance(user_balances, a) =
                Received(all, a) - Sent(all, a)
                + (IF a \in SendersSeen THEN InitialBalance ELSE 0)

(* C4: after every public operation, no pending transaction has the content hash *)
(* of a transaction contained in a block of the chain.                           *)
C4_NoPendingInChain ==
    \A p \in SeqTxs(pending_transactions) :
        \A x \in AllChainTxs(chain) : TxHash(p) # TxHash(x)

\* C4 witness: a transaction is pending while the chain holds a transfer with its
\* triple under another hash, two blocks after genesis
C4_Witness ==
    /\ Len(chain) = 3
    /\ \E p \in SeqTxs(pending_transactions) :
          \E x \in AllChainTxs(chain) : TxTriple(p) = TxTriple(x)

(* C5: after any sequential series of AddTransaction, MinePending,               *)
(* HandleNewBlock and ReplaceChain calls, no two entries of pending share a      *)
(* content hash and no two share a (sender, recipient, amount) triple.           *)
C5_PendingDistinct ==
    \A i, j \in 1..Len(pending_transactions) :
        i # j => /\ TxHash(pending_transactions[i]) # TxHash(pending_transactions[j])
                 /\ TxTriple(pending_transactions[i]) # TxTriple(pending_transactions[j])

\* C5 witness: two transactions are pending after a duplicate was turned away
C5_Witness ==
    /\ Len(pending_transactions) = 2
    /\ \E i \in 1..Len(rejected_transactions) :
          rejected_transactions[i].reason = DuplicateReason

(* C6: whenever AddTransaction(t) returns admitted, the sender's balance is lower *)
(* by t.amount, the recipient's balance is higher by t.amount and t is in        *)
(* pending, for every admitted t, including one whose sender is "0" and one      *)
(* whose sender is its recipient.  (The balance of an account with no entry yet  *)
(* counts as its initial balance: 100 for the sender, 0 for the recipient.)      *)
BalanceBefore(a, t) ==
    IF a \in DOMAIN user_balances THEN user_balances[a]
    ELSE IF a = t.sender /\ a # SYSTEM THEN InitialBalance ELSE 0

C7_AdmittedIffFunded(t) ==
    LET held == IF t.sender \in DOMAIN user_balances
                THEN user_balances[t.sender] ELSE InitialBalance
    IN  /\ AddAdmits(t) => held >= t.amount
        /\ (AddRejects(t) /\ ~IsDuplicateTransaction(t, pending_transactions, chain))
               => held < t.amount

C7_NoNegativeBalance ==
    \A a \in DOMAIN user_balances : user_balances[a] >= 0

C7_PendingWithinFunds ==
    \A s \in SendersSeen :
        Sent(pending_transactions, s)
            <= InitialBalance
               + Received(ChainTxSeq(chain, 1) \o pending_transactions, s)
               - Sent(ChainTxSeq(chain, 1), s)

C7_NoOverdraft ==
    /\ [](C7_NoNegativeBalance /\ C7_PendingWithinFunds)
    /\ [][\A t \in TxPool : t.sender # SYSTEM => C7_AdmittedIffFunded(t)]_vars

\* C7 witness: a sender with a pending transfer was refused a further one for
\* insufficient funds
C7_Witness ==
    /\ pending_transactions # << >>
    /\ \E i \in 1..Len(rejected_transactions) :
          /\ rejected_transactions[i].reason = InsufficientReason
          /\ rejected_transactions[i].transaction.sender = pending_transactions[1].sender
          /\ rejected_transactions[i].transaction.amount
                 > user_balances[pending_transactions[1].sender]

(* C8: after any sequence of ledger operations the sum of all balances is        *)
(* 100 * (number of distinct senders seen so far) + mining_reward * (number of   *)
(* mined blocks), the senders seen being those of the chain and of pending or,   *)
(* on the other reading, those and the senders of the rejected transactions.     *)
SendersSubmitted ==
    SendersSeen \cup ({rejected_transactions[i].transaction.sender :
                          i \in 1..Len(rejected_transactions)} \ {SYSTEM})

C8_Conservation ==
    LET total == SumBalances(user_balances, DOMAIN user_balances)
        mined == MiningReward * (Len(chain) - 1)
    IN  \/ total = InitialBalance * Cardinality(SendersSeen) + mined
        \/ total = InitialBalance * Cardinality(SendersSubmitted) + mined

(* C9: when a sequence of transactions is submitted and then submitted again,    *)
(* every second submission is rejected with reason "Duplicate transaction",      *)
(* whether or not MinePending runs in between and whether the first submission   *)
(* was admitted or rejected.                                                     *)
Held == SeqTxs(pending_transactions) \cup AllChainTxs(chain)

SubmittedBefore ==
    Held \cup {rejected_transactions[i].transaction : i \in 1..Len(rejected_transactions)}

RejectedAsDuplicate(t) ==
    /\ pending_transactions' = pending_transactions
    /\ rejected_transactions' =
           Append(rejected_transactions,
                  [transaction |-> t, reason |-> DuplicateReason, timestamp |-> Now(chain)])

C9_ResubmissionRejected ==
    [][\A t \in TxPool :
          (t \in SubmittedBefore /\ (AddAdmits(t) \/ AddRejects(t)))
              => RejectedAsDuplicate(t)]_vars

(* C9 as amended: a transaction that was admitted stays in pending or in the     *)
(* chain under AddTransaction and MinePending, and submitting it again is        *)
(* rejected with reason "Duplicate transaction", whether or not MinePending ran  *)
(* in between.                                                                   *)
C9_AdmittedResubmissionRejected ==
    /\ [][Held \subseteq Held']_vars
    /\ [][\A t \in TxPool :
             (t \in Held /\ (AddAdmits(t) \/ AddRejects(t)))
                 => RejectedAsDuplicate(t)]_vars

\* C9 witness: a transaction was rejected as a duplicate when a block of the
\* chain already held it
C9_Witness ==
    \E i \in 1..Len(rejected_transactions) :
        /\ rejected_transactions[i].reason = DuplicateReason
        /\ \E k \in 2..Len(chain) :
              /\ k <= rejected_transactions[i].timestamp
              /\ rejected_transactions[i].transaction \in SeqTxs(chain[k].transactions)

(* C10: in every state reached by AddTransaction and MinePending, the block      *)
(* MinePending appended is well-formed, its previous_hash is the hash of the     *)
(* tip it was mined on, and IsChainValid() is true after the append.             *)
C10_MinedBlockValid ==
    Len(chain) > 1 =>
        /\ IsHashValid(LatestBlock(chain))
        /\ LatestBlock(chain).previous_hash = chain[Len(chain) - 1].hash
        /\ IsChainValid(chain)

(* C11: MinePending(miner) appends exactly one block whose transactions are the  *)
(* pending transactions at the call, in their order, followed by the system      *)
(* transaction "0" -> miner of amount mining_reward; afterwards the chain is one *)
(* block longer, pending is empty, balances[miner] is higher by mining_reward    *)
(* (from 0 if the miner was unknown) and no other balance has changed.           *)
MinesBlock ==
    /\ Len(chain') = Len(chain) + 1
    /\ SubSeq(chain', 1, Len(chain)) = chain
    /\ LatestBlock(chain').transactions # << >>
    /\ LET txs == LatestBlock(chain').transactions
       IN  txs[Len(txs)].sender = SYSTEM /\ txs[Len(txs)].recipient = MinerAddress

C11_MinePendingEffect ==
    [][MinesBlock =>
          /\ LatestBlock(chain').transactions
                 = Append(pending_transactions, RewardTransaction(MinerAddress, chain))
          /\ pending_transactions' = << >>
          /\ GetBalance(user_balances', MinerAddress)
                 = GetBalance(user_balances, MinerAddress) + MiningReward
          /\ \A a \in (DOMAIN user_balances \cup DOMAIN user_balances') \ {MinerAddress} :
                GetBalance(user_balances', a) = GetBalance(user_balances, a)]_vars

(* C12: ReplaceChain(candidate) is a no-op returning false whenever the          *)
(* candidate is not longer than the chain or fails IsChainValid: chain, pending, *)
(* rejected and balances are left unchanged.                                     *)
ReplaceChainReturns ==
    reply' # reply /\ reply'.op = "replace_chain"

CandidateBlocks(candidate) ==
    [i \in 1..Len(candidate) |-> BlockFromDict(candidate[i], chain)]

C12_ReplaceChainNoOp ==
    [][(/\ ReplaceChainReturns
        /\ \/ Len(reply'.candidate) <= Len(chain)
           \/ ~IsChainValid(CandidateBlocks(reply'.candidate)))
          => /\ reply'.ok = FALSE
             /\ UNCHANGED ledger_vars]_vars

\* C12 witness: a candidate longer than the chain was refused as invalid while
\* transactions were pending
C12_Witness ==
    /\ reply.op = "replace_chain"
    /\ ~reply.ok
    /\ Len(reply.candidate) > Len(chain)
    /\ pending_transactions # << >>

(* C13: after a successful ReplaceChain the pending pool is the previous pending *)
(* pool, in the same order, without every transaction whose content hash or      *)
(* whose (sender, recipient, amount) triple occurs in a block of the new chain.  *)
C13_ReplaceChainFiltersPending ==
    [][(ReplaceChainReturns /\ reply'.ok)
          => LET new_hashes == {TxHash(x) : x \in AllChainTxs(chain')}
                 new_triples == {TxTriple(x) : x \in AllChainTxs(chain')}
             IN  pending_transactions' =
                     SelectSeq(pending_transactions,
                               LAMBDA p : /\ TxHash(p) \notin new_hashes
                                          /\ TxTriple(p) \notin new_triples)]_vars

\* C13 witness: a successful replacement dropped a pending transaction and kept
\* another
C13_Witness ==
    /\ reply.op = "replace_chain"
    /\ reply.ok
    /\ reply.dropped >= 1
    /\ pending_transactions # << >>

(* C14: after a successful ReplaceChain, balances are the balances obtained by   *)
(* replaying every transaction of the new chain from scratch (a sender credited  *)
(* 100 on first appearance, each transfer debited and credited, rewards          *)
(* credited), the balances IsChainValid simulates for that chain.                *)
RECURSIVE ReplayedBalances(_, _, _)
ReplayedBalances(c, i, temp) ==
    IF i > Len(c) THEN temp
    ELSE ReplayedBalances(c, i + 1, ReplayTxs(temp, c[i].transactions).balances)

C14_ReplaceChainReplaysBalances ==
    [][(ReplaceChainReturns /\ reply'.ok)
          => user_balances' = ReplayedBalances(chain', 2, << >>)]_vars

(* C15: Consensus() replaces the local chain and returns true if and only if at  *)
(* least one active peer serves a valid chain strictly longer than the local     *)
(* chain, and the chain adopted is the longest such chain; a peer advertising a  *)
(* longer but invalid chain does not prevent the adoption of another peer's      *)
(* valid strictly longer chain.                                                  *)
ConsensusReturns ==
    reply' # reply /\ reply'.op = "consensus"

\* the valid chains longer than ours among the responses
ValidLonger(responses) ==
    { CandidateBlocks(responses[i].chain) : i \in
        { k \in 1..Len(responses) :
            /\ Len(responses[k].chain) > Len(chain)
            /\ IsChainValid(CandidateBlocks(responses[k].chain)) } }

C15_ConsensusAdoptsLongestValid ==
    [][ConsensusReturns =>
          /\ reply'.ok <=> ValidLonger(reply'.responses) # {}
          /\ reply'.ok =>
                /\ chain' \in ValidLonger(reply'.responses)
                /\ \A v \in ValidLonger(reply'.responses) : Len(v) <= Len(chain')]_vars

(* C16: in a network of mutually registered, active nodes, once transaction      *)
(* submission and mining stop and every node keeps running Consensus(), all      *)
(* nodes eventually hold the same chain, also when two nodes hold different      *)
(* chains of equal length.                                                       *)
AllAgree == \A m, n \in NodeIds : nodes[m].chain = nodes[n].chain

C16_NodesConverge == [](~submissions_open => <>AllAgree)

(* C17: HandleNewBlock(block) appends the block if and only if block.index is    *)
(* latest.index + 1, block.previous_hash is latest.hash and the block is         *)
(* well-formed; when appended, the reward recipient is credited and pending is   *)
(* pruned of every transaction matching a block transaction by content hash or   *)
(* by triple; Consensus() is run only when block.index > latest.index + 1; in    *)
(* every other case the block is rejected and chain, pending and balances are    *)
(* unchanged.                                                                    *)
HandleNewBlockReturns ==
    reply' # reply /\ reply'.op = "handle_new_block" /\ ~reply'.again

Delivered == BlockFromDict(reply'.block, chain)

LinkedNext(b) ==
    b.index = LatestBlock(chain).index + 1 /\ b.previous_hash = LatestBlock(chain).hash

Appended == reply'.branch = "append"
RanConsensus == reply'.branch \in {"replaced", "consensus"}

\* what appending the delivered block does to the ledger
AppendEffect(b) ==
    /\ chain' = Append(chain, b)
    /\ reply'.ok = TRUE
    /\ \A a \in DOMAIN user_balances \cup DOMAIN user_balances' :
          GetBalance(user_balances', a) =
              GetBalance(user_balances, a)
              + Received(SelectSeq(b.transactions, LAMBDA t : t.sender = SYSTEM), a)
    /\ LET hashes == {TxHash(x) : x \in SeqTxs(b.transactions)}
           triples == {TxTriple(x) : x \in SeqTxs(b.transactions)}
       IN  pending_transactions' =
               SelectSeq(pending_transactions,
                         LAMBDA p : TxHash(p) \notin hashes /\ TxTriple(p) \notin triples)

C17_HandleNewBlockCases ==
    [][HandleNewBlockReturns =>
          /\ Appended <=> (LinkedNext(Delivered) /\ IsHashValid(Delivered))
          /\ Appended => AppendEffect(Delivered)
          /\ RanConsensus => Delivered.index > LatestBlock(chain).index + 1
          /\ (~Appended /\ ~RanConsensus) => (reply'.ok = FALSE /\ UNCHANGED ledger_vars)]_vars

(* C17 as amended: HandleNewBlock(block) appends the block if and only if it is  *)
(* the linked next block (index latest.index + 1, previous_hash latest.hash) and *)
(* is well-formed against its own difficulty field; when appended, every "0"     *)
(* transaction of the block is credited to its recipient and pending is pruned   *)
(* by content hash and by triple; Consensus() is run exactly when the block is  *)
(* not the linked next block and block.index > latest.index (this includes index *)
(* latest.index + 1 with another previous_hash); in every other case false is    *)
(* returned and chain, pending and balances are unchanged.                       *)
C17_HandleNewBlockCasesAmended ==
    [][HandleNewBlockReturns =>
          /\ Appended <=> (LinkedNext(Delivered) /\ IsHashValid(Delivered))
          /\ Appended => AppendEffect(Delivered)
          /\ RanConsensus <=> (/\ ~LinkedNext(Delivered)
                               /\ Delivered.index > LatestBlock(chain).index)
          /\ (~Appended /\ ~RanConsensus) => (reply'.ok = FALSE /\ UNCHANGED ledger_vars)]_vars

\* C17 witness: a block at the next index that links to another chain made the
\* node run Consensus, which replaced the chain
C17_Witness ==
    /\ reply.op = "handle_new_block"
    /\ ~reply.again
    /\ reply.branch = "replaced"
    /\ reply.block.index = Len(chain) - 1
    /\ pending_transactions # << >>

(* C18: delivering the same broadcast block to HandleNewBlock twice in a row     *)
(* leaves chain, balances and pending as delivering it once does: the second     *)
(* delivery changes nothing.                                                     *)
C18_RedeliveryChangesNothing ==
    [][(reply' # reply /\ reply'.op = "handle_new_block" /\ reply'.again)
          => UNCHANGED ledger_vars]_vars

(* C19: on a miner node started as main starts it, with the backup mining loop   *)
(* running, when a submitted transaction is admitted and the number of           *)
(* non-system pending transactions after the admission is 3, a block is mined    *)
(* before the submission returns: the chain is one block longer, pending is      *)
(* empty and the miner's balance has grown by the mining reward.                 *)
LoopRunning == mining_thread = "alive" /\ running

\* the step is a submission that admitted t, whether or not it went on to mine
SubmissionAdmits(t) ==
    /\ t \notin SeqTxs(pending_transactions)
    /\ \/ AddAdmits(t)
       \/ /\ Len(chain') = Len(chain) + 1
          /\ Len(LatestBlock(chain').transactions) = Len(pending_transactions) + 2
          /\ SubSeq(LatestBlock(chain').transactions, 1, Len(pending_transactions) + 1)
                = Append(pending_transactions, t)

SubmittedNow ==
    SeqTxs(pending_transactions')
        \cup (IF Len(chain') > Len(chain) THEN SeqTxs(LatestBlock(chain').transactions)
              ELSE {})

C19_ThirdAdmissionMines ==
    [][(/\ LoopRunning
        /\ \E t \in SubmittedNow :
              /\ SubmissionAdmits(t)
              /\ Len(NonSystem(Append(pending_transactions, t))) = BlockSize)
          => /\ Len(chain') = Len(chain) + 1
             /\ pending_transactions' = << >>
             /\ GetBalance(user_balances', MinerAddress)
                   = GetBalance(user_balances, MinerAddress) + MiningReward]_vars

(* C20: on a miner node whose mining loop is running, the pending pool prunes    *)
(* itself: whatever the sequence of admissions, also one that leaves more than   *)
(* 3 non-system transactions in pending between two passes of the loop, every    *)
(* admitted transaction is eventually included in a block and removed from       *)
(* pending (for as long as the loop is left running).                            *)
Pending(body) == \E t \in SeqTxs(pending_transactions) : TxTriple(t) = body
Mined(body) == \E t \in AllChainTxs(chain) : TxTriple(t) = body

C20_PendingSelfPruning ==
    \A body \in MinerBodies :
        [](LoopRunning /\ Pending(body) => <>(Mined(body) \/ ~LoopRunning))

(* C21: after StopMining() is called, and StartMining is not called again, the   *)
(* mining loop sees the cleared running flag at its next tick and exits: no      *)
(* tick, and so no mining attempt, starts after the stop, and a block whose      *)
(* mining had already begun is still completed and appended.                     *)
LoopPc == mining["loop"].pc

\* the block the mining thread has begun is the new tip
LoopBlockAppended ==
    /\ Len(chain') = Len(chain) + 1
    /\ LatestBlock(chain').index = mining["loop"].index
    /\ LatestBlock(chain').previous_hash = mining["loop"].previous_hash
    /\ LatestBlock(chain').transactions = mining["loop"].transactions

C21_StopEndsLoop ==
    /\ [][/\ (~running /\ LoopPc = "sleep") => LoopPc' \in {"sleep", "off"}
          /\ (LoopPc = "mine" /\ LoopPc' # "mine") => LoopBlockAppended]_vars
    /\ [](~running /\ mining_thread = "alive" => <>(mining_thread = "dead"))

\* C21 witness: the stop came while the thread was mining a block
C21_Witness == ~running /\ LoopPc = "mine"

(* C22: a transaction admitted at an entry node through a request without the    *)
(* node_broadcast header is POSTed once to each active peer with X-Source-Type:  *)
(* node_broadcast; a node that receives a transaction or a block carrying that   *)
(* header never broadcasts it again, so one client submission in a network of N  *)
(* nodes causes at most N - 1 transaction messages and gossip always terminates. *)
\* the node whose mining address the reward of block b pays
MiningAddressOwner(b) ==
    CHOOSE n \in GossipNodes : b.transactions[Len(b.transactions)].recipient = MiningAddress(n)

Messages(kind) == { i \in 1..Len(handlers) : handlers[i].kind = kind }

C22_GossipStops ==
    /\ [](/\ Cardinality(Messages("transaction")) <= Cardinality(GossipNodes) - 1
          /\ \A i \in Messages("transaction") :
                /\ handlers[i].source_type = "node_broadcast"
                /\ handlers[i].to # handlers[i].from
                /\ \A j \in Messages("transaction") :
                      handlers[j].to = handlers[i].to => j = i
          /\ \A i \in Messages("block") :
                /\ handlers[i].from = MiningAddressOwner(handlers[i].payload)
                /\ \A j \in Messages("block") :
                      (handlers[j].to = handlers[i].to
                         /\ handlers[j].payload = handlers[i].payload) => j = i)
    /\ <>[]AllHandled

\* C22 witness: the transaction went to both peers, both handled it, and a block
\* reached a peer
C22_Witness ==
    /\ Cardinality(Messages("transaction")) = 2
    /\ \A i \in Messages("transaction") : handlers[i].done
    /\ \E i \in Messages("block") : handlers[i].done

(* C23: each AddTransaction call that rejects a transaction appends exactly one   *)
(* entry to the rejected list (one overspend on a fresh ledger yields rejected    *)
(* count 1), and that entry carries the reason "Insufficient funds: S < A" with   *)
(* the sender's balance S and the amount A for an overspend, or "Duplicate        *)
(* transaction" for a duplicate.                                                  *)
C23_OneEntryPerRejection ==
    [][\A t \in TxPool :
          AddRejects(t) =>
              /\ Len(rejected_transactions') = Len(rejected_transactions) + 1
              /\ LET entry == rejected_transactions'[Len(rejected_transactions')]
                     S == InitAccount(user_balances, t.sender, InitialBalance)[t.sender]
                 IN  IF IsDuplicateTransaction(t, pending_transactions, chain)
                     THEN entry.reason = DuplicateReason
                     ELSE entry.reason = InsufficientDetail(S, t.amount)]_vars

(* C24: admission never raises, and every submitted transaction that is not      *)
(* admitted (through Blockchain.add_transaction or Node.handle_new_transaction,   *)
(* as a duplicate or for insufficient funds) is recorded in the rejected list     *)
(* with a reason; rejected entries are never removed and never admitted again     *)
(* without a new submission.                                                      *)
IsAdmissionCall(r) == r.op \in {"add_transaction", "handle_new_transaction"}

C24_NotAdmittedIsRecorded ==
    /\ []((IsAdmissionCall(reply) /\ ~reply.ok) =>
             \E i \in (reply.rejected_before + 1)..Len(rejected_transactions) :
                 /\ rejected_transactions[i].transaction = reply.transaction
                 /\ rejected_transactions[i].reason # << >>)
    /\ [][/\ Len(rejected_transactions') >= Len(rejected_transactions)
          /\ SubSeq(rejected_transactions', 1, Len(rejected_transactions))
                 = rejected_transactions
          /\ \A t \in SeqTxs(pending_transactions') \ SeqTxs(pending_transactions) :
                 IsAdmissionCall(reply') /\ reply'.ok /\ reply'.transaction = t]_vars

(* C25: across any sequence of operations the chain only changes by appending    *)
(* one block at the tip (MinePending, HandleNewBlock) or by full replacement with *)
(* a strictly longer chain (ReplaceChain, Consensus): no operation removes or     *)
(* alters an appended block, and the length of the chain never decreases.         *)
AppendedAtTip ==
    /\ Len(chain') = Len(chain) + 1
    /\ SubSeq(chain', 1, Len(chain)) = chain

\* the new chain may or may not begin with the blocks of the old one
ReplacedByLonger == Len(chain') > Len(chain)

C25_ChainGrowsOnly ==
    [][/\ Len(chain') >= Len(chain)
       /\ chain' # chain => (AppendedAtTip \/ ReplacedByLonger)]_vars

\* C25 witness: the chain of a peer replaced ours and a block we mined was
\* appended at its tip
C25_Witness ==
    /\ chain[1] = PeerGenesis
    /\ Len(chain) = MaxChain
    /\ LatestBlock(chain).transactions[Len(LatestBlock(chain).transactions)].recipient
           = MinerAddress

(* C26: for every chain C, if IsChainValid(C) returns true then IsChainValid      *)
(* returns true for every non-empty prefix of C.                                  *)
C26_PrefixValid ==
    (reply.op = "is_chain_valid" /\ IsChainValid(chain)) => reply.ok

\* C26 witness: a valid chain of MaxChain + 1 blocks that holds transfers, and
\* its prefix of MaxChain blocks was validated
C26_Witness ==
    /\ reply.op = "is_chain_valid"
    /\ reply.length = MaxChain
    /\ Len(chain) = MaxChain + 1
    /\ IsChainValid(chain)
    /\ \E i \in 2..Len(chain) : Len(chain[i].transactions) > 1

(* C27: Register(url) returns false and leaves the peer list unchanged when the   *)
(* URL denotes this node itself, denotes a (host, port) already in the peer list, *)
(* or has a malformed port; otherwise it appends exactly one new peer entry and   *)
(* persists the list.                                                             *)
RegisterReturns == reply' # reply /\ reply'.op = "register_node"

C27_RegisterRefuses ==
    [][RegisterReturns =>
          LET url  == reply'.url
              host == NormalizeHost(url.host)
              p    == IntOf(IF url.has_port THEN url.port ELSE "80")
          IN  IF \/ ~p.ok
                 \/ (host = SelfHost /\ p.value = SelfPort)
                 \/ Registered(registered_nodes, host, p.value)
              THEN /\ reply'.ok = FALSE
                   /\ registered_nodes' = registered_nodes
              ELSE /\ registered_nodes' = Append(registered_nodes, NewNode(host, p.value))
                   /\ config_file' = registered_nodes']_vars

(* C28: a registered peer is reported active exactly when it was recorded (by an *)
(* announcement or a successful probe) less than 300 seconds ago, or when a forced *)
(* liveness probe to it succeeds, which refreshes its last-seen time; after        *)
(* RecordActive(h, p) the peer (h, p) is in the peer list once and stays active    *)
(* for the next 300 seconds, and with no new record and no successful probe it is  *)
(* reported inactive afterwards.                                                   *)
RecordedRecently(r) == r.known /\ (r.now - r.last) < ActivityTimeout

Occurrences(reg, host, port) ==
    Cardinality({ i \in 1..Len(reg) : reg[i].host = host /\ reg[i].port = port })

C28_ActiveWithinTimeout ==
    /\ [](reply.op = "check_node_status" =>
            (reply.ok <=> (RecordedRecently(reply)
                             \/ (reply.force_check /\ reply.responds))))
    /\ [][(reply' # reply /\ reply'.op = "check_node_status"
             /\ ~RecordedRecently(reply') /\ reply'.force_check /\ reply'.responds)
            => active_nodes'[NodeKey(reply'.host, reply'.port)] = clock]_vars
    /\ [][(reply' # reply /\ reply'.op = "record_active_node")
            => /\ Occurrences(registered_nodes', reply'.host, reply'.port) = 1
               /\ active_nodes'[NodeKey(reply'.host, reply'.port)] = clock]_vars

(* C28 as amended: the node's own entry is always reported active, without any   *)
(* record or probe; every other registered peer is reported active exactly when    *)
(* it was recorded less than 300 seconds ago, or when a forced liveness probe to   *)
(* it succeeds, which refreshes its last-seen time; after RecordActive(h, p) the   *)
(* peer (h, p) is in the peer list once with the time of the call as last-seen.    *)
IsSelf(r) == r.host = SelfHost /\ r.port = SelfPort

C28_ActiveWithinTimeoutAmended ==
    /\ [](reply.op = "check_node_status" =>
            IF IsSelf(reply) THEN reply.ok
            ELSE reply.ok <=> (RecordedRecently(reply)
                                 \/ (reply.force_check /\ reply.responds)))
    /\ [][(reply' # reply /\ reply'.op = "check_node_status" /\ ~IsSelf(reply')
             /\ ~RecordedRecently(reply') /\ reply'.force_check /\ reply'.responds)
            => active_nodes'[NodeKey(reply'.host, reply'.port)] = clock]_vars
    /\ [][(reply' # reply /\ reply'.op = "record_active_node")
            => /\ Occurrences(registered_nodes', reply'.host, reply'.port) = 1
               /\ active_nodes'[NodeKey(reply'.host, reply'.port)] = clock]_vars

\* C28 witness: a peer recorded exactly 300 seconds ago is checked without a
\* successful probe and reported inactive
C28_Witness ==
    /\ reply.op = "check_node_status"
    /\ ~IsSelf(reply)
    /\ reply.known
    /\ reply.now - reply.last = ActivityTimeout
    /\ ~reply.ok

(* C29: ledger mutations are serialised: under any interleaving of two           *)
(* concurrent AddTransaction calls from request handlers (same sender, or same    *)
(* (sender, recipient, amount) triple), the result equals some sequential order   *)
(* of the two calls, so the sender's balance never becomes negative and pending   *)
(* never holds two transactions with the same triple.                             *)
\* the ledger after add_transaction(first) and then add_transaction(second) on the
\* fresh ledger
OneAfterTheOther(first, second) ==
    LET r1 == LedgerAddTransaction(first, chain, << >>, << >>, << >>)
        r2 == LedgerAddTransaction(second, chain, r1.pending, r1.rejected, r1.balances)
    IN  [pending |-> r2.pending, rejected |-> r2.rejected, balances |-> r2.balances]

BothReturned == \A h \in HandlerIds : handlers[h].pc = "done"

C29_AdmissionSerialised ==
    /\ \A a \in DOMAIN user_balances : user_balances[a] >= 0
    /\ \A i, j \in 1..Len(pending_transactions) :
          i # j => TxTriple(pending_transactions[i]) # TxTriple(pending_transactions[j])
    /\ BothReturned =>
          [pending |-> pending_transactions, rejected |-> rejected_transactions,
           balances |-> user_balances]
             \in { OneAfterTheOther(handlers["h1"].transaction, handlers["h2"].transaction),
                   OneAfterTheOther(handlers["h2"].transaction, handlers["h1"].transaction) }

(* C30: when the chain tip changes while a block is being mined (a concurrent    *)
(* HandleNewBlock, ReplaceChain, GET /mine or second mining actor), the mined    *)
(* block is discarded instead of appended: under every interleaving the chain    *)
(* never holds two blocks with the same index, nor a block whose previous_hash   *)
(* is not the hash of its predecessor.                                           *)
C30_MinedBlockFitsTip ==
    /\ \A i, j \in 1..Len(chain) : i # j => chain[i].index # chain[j].index
    /\ \A i \in 2..Len(chain) : chain[i].previous_hash = chain[i - 1].hash

(* C31: within one node, admitted transactions appear in the pending pool in the *)
(* order their AddTransaction calls returned, and a block produced by MinePending *)
(* lists them in that same order; no operation reorders pending.                  *)
\* the position of t in the sequence s
Position(s, t) == CHOOSE i \in 1..Len(s) : s[i] = t

\* the step is a mine_pending_transactions of this node
MinesHere ==
    /\ Len(chain') = Len(chain) + 1
    /\ SubSeq(chain', 1, Len(chain)) = chain
    /\ RewardTransaction(MinerAddress, chain) \in SeqTxs(LatestBlock(chain').transactions)

C31_PendingKeepsOrder ==
    [][/\ \A x, y \in SeqTxs(pending_transactions) \cap SeqTxs(pending_transactions') :
             Position(pending_transactions, x) < Position(pending_transactions, y)
                 => Position(pending_transactions', x) < Position(pending_transactions', y)
       /\ \A t \in SeqTxs(pending_transactions') \ SeqTxs(pending_transactions) :
             pending_transactions' = Append(pending_transactions, t)
       /\ MinesHere =>
             LatestBlock(chain').transactions
                 = Append(pending_transactions, RewardTransaction(MinerAddress, chain))]_vars

\* C31 witness: a block mined here holds two transfers, the one admitted first
\* before the other, and its reward
C31_Witness ==
    \E i \in 2..Len(chain) :
        /\ Len(chain[i].transactions) = 3
        /\ chain[i].transactions[3].recipient = MinerAddress
        /\ chain[i].transactions[1].signature # chain[i].transactions[2].signature

(* C32: a submitted transaction whose sender equals its recipient is rejected: it *)
(* is not admitted to pending, the balances do not change, and it is recorded in  *)
(* the rejected list with a reason stating that source and recipient must differ. *)
SelfTransferReason == <<"Source and recipient must differ">>

\* the call reply holds submitted a transfer from an account to itself
SelfTransferCall(r) ==
    IsAdmissionCall(r) /\ r.transaction.sender = r.transaction.recipient

C32_SelfTransferRejected ==
    SelfTransferCall(reply) =>
        /\ ~reply.ok
        /\ Len(rejected_transactions) > reply.rejected_before
        /\ rejected_transactions[Len(rejected_transactions)].transaction
               = reply.transaction
        /\ rejected_transactions[Len(rejected_transactions)].reason
               = SelfTransferReason

(* C35: after StartMining() returns on a miner node a background mining loop is   *)
(* active with running == true, for every preceding sequence of StartMining and   *)
(* StopMining calls, a StartMining shortly after a StopMining while the previous  *)
(* loop thread is still sleeping included; at most one mining loop thread exists. *)
C35_StartedLoopRuns ==
    reply.op = "start_mining" => running /\ mining_thread = "alive"

(* C33: a second transfer with the same (sender, recipient, amount) triple but a  *)
(* different content hash is rejected as a duplicate while the first is pending,  *)
(* and is admitted, given funds, once the first has been mined into a block and   *)
(* removed from pending.                                                          *)
\* the step is the call add_transaction(t)
AddCalled(t) ==
    /\ reply' # reply
    /\ reply'.op = "add_transaction"
    /\ reply'.transaction = t

\* the transactions of txs that share the triple of t and not its hash
Twins(t, txs) == { p \in txs : TxTriple(p) = TxTriple(t) /\ TxHash(p) # TxHash(t) }

\* t follows a twin that was mined: no twin is pending, t itself is new
FollowsMinedTwin(t) ==
    /\ Twins(t, AllChainTxs(chain)) # {}
    /\ Twins(t, SeqTxs(pending_transactions)) = {}
    /\ t \notin SeqTxs(pending_transactions) \cup AllChainTxs(chain)

C33_TwinAfterMining ==
    [][\A t \in TxPool :
          AddCalled(t) =>
              /\ Twins(t, SeqTxs(pending_transactions)) # {} =>
                    /\ ~reply'.ok
                    /\ pending_transactions' = pending_transactions
                    /\ rejected_transactions'[Len(rejected_transactions')].reason
                           = DuplicateReason
              /\ ( /\ FollowsMinedTwin(t)
                   /\ HasFunds(GetBalance(user_balances, t.sender), t.amount) ) =>
                    /\ reply'.ok
                    /\ pending_transactions' = Append(pending_transactions, t)]_vars

\* C33 witness: a transfer was admitted after its twin had been mined
C33_Witness ==
    /\ reply.op = "add_transaction"
    /\ reply.ok
    /\ Twins(reply.transaction, AllChainTxs(chain)) # {}
    /\ reply.transaction \in SeqTxs(pending_transactions)

(* C34: HandleNewBlock returns true only if the received block was added to the   *)
(* chain: whenever it returns true the chain tip is that block, and whenever it   *)
(* runs Consensus() without the chain being replaced it returns false.            *)
C34_TrueOnlyWhenAdded ==
    [][HandleNewBlockReturns =>
          /\ reply'.ok => LatestBlock(chain') = Delivered
          /\ (RanConsensus /\ chain' = chain) => ~reply'.ok]_vars

(* C36: a transaction admitted by AddTransaction while MinePending is in progress *)
(* is never lost and never corrupts the block: under every interleaving it ends   *)
(* up either inside the mined block, whose stored hash still equals its           *)
(* recomputed hash, or in pending after mining completes.                         *)
\* the step is the return of the mine_pending_transactions call of actor a
MiningCompletes(a) ==
    /\ mining[a].pc = "mine"
    /\ mining'[a].pc # "mine"

\* the transactions admitted since actor a entered mine_pending_transactions
AdmittedMeanwhile(a) ==
    { t \in SeqTxs(pending_transactions) :
        /\ t.sender # SYSTEM
        /\ t \notin SeqTxs(SubSeq(mining[a].transactions, 1, mining[a].hashed)) }

C36_AdmittedWhileMiningKept ==
    [][\A a \in Actors :
          MiningCompletes(a) =>
              \A t \in AdmittedMeanwhile(a) :
                  \/ /\ t \in SeqTxs(LatestBlock(chain').transactions)
                     /\ LatestBlock(chain').hash = CalculateHash(LatestBlock(chain'))
                  \/ t \in SeqTxs(pending_transactions')]_vars

(* C37: every block at index >= 1 that enters the chain through HandleNewBlock or *)
(* ReplaceChain satisfies the receiving ledger's configured difficulty (its hash  *)
(* starts with at least ledger.difficulty zeros) and has an index equal to its    *)
(* position, whatever difficulty and index fields the peer data carries.          *)
C37_OwnDifficultyEnforced ==
    \A i \in 2..Len(chain) :
        /\ HasPrefix(chain[i].hash, Difficulty)
        /\ chain[i].index = i - 1

(* C38: an AddTransaction that rejects never debits or credits: chain and pending *)
(* are unchanged and every account that already had a balance keeps it; the only  *)
(* permitted change of the balance map is the lazy creation of an unknown sender  *)
(* at 100 and of an unknown recipient at 0, and no entry is created when the      *)
(* rejection reason is duplicate.                                                 *)
\* the step is a call add_transaction(t) that returned False
AddRefused(t) == AddCalled(t) /\ ~reply'.ok

C38_RejectionKeepsBalances ==
    [][\A t \in OverdrawPool :
          AddRefused(t) =>
              /\ chain' = chain
              /\ pending_transactions' = pending_transactions
              /\ \A a \in DOMAIN user_balances :
                    a \in DOMAIN user_balances' /\ user_balances'[a] = user_balances[a]
              /\ \A a \in DOMAIN user_balances' \ DOMAIN user_balances :
                    \/ a = t.sender /\ user_balances'[a] = InitialBalance
                    \/ a = t.recipient /\ user_balances'[a] = 0
              /\ rejected_transactions'[Len(rejected_transactions')].reason
                     = DuplicateReason => user_balances' = user_balances]_vars

\* C38 witness: a refused overspend of an unknown sender left the sender at 100 and the
\* unknown recipient at 0, beside accounts that kept what they held
C38_Witness ==
    /\ reply.op = "add_transaction"
    /\ ~reply.ok
    /\ reply.transaction.amount > InitialBalance
    /\ GetBalance(user_balances, "bob") > 0
    /\ "carol" \in DOMAIN user_balances
    /\ user_balances["carol"] = InitialBalance
    /\ rejected_transactions[Len(rejected_transactions)].transaction = reply.transaction

(* C39: in the single-server ledger, after every add_transaction call the pending *)
(* pool holds fewer than 3 transactions, every non-genesis block of the chain     *)
(* contains exactly 3 transactions in admission order with previous_hash equal to *)
(* the hash of the preceding block, and no transaction is in both a block and     *)
(* pending.                                                                       *)
\* the transactions of s are in the order in which they were constructed
InAdmissionOrder(s) ==
    \A i, j \in 1..Len(s) : i < j => s[i].timestamp < s[j].timestamp

C39_BlocksOfThree ==
    /\ Len(pending_transactions) < ServerBlockSize
    /\ \A i \in 2..Len(chain) :
          /\ Len(chain[i].transactions) = ServerBlockSize
          /\ chain[i].previous_hash = chain[i - 1].hash
    /\ InAdmissionOrder(ServerChainTxs(chain) \o pending_transactions)
    /\ SeqTxs(ServerChainTxs(chain)) \cap SeqTxs(pending_transactions) = {}

\* C39 witness: two blocks were created and two more transactions are pending
C39_Witness ==
    /\ Len(chain) = 3
    /\ Len(pending_transactions) = 2
    /\ reply.op = "add_transaction"
    /\ reply.ok

(* C40: in the single-server ledger, after any sequence of create_user,           *)
(* add_transaction and reset calls every balance is >= 0 and the sum of all       *)
(* balances equals 100 times the number of created users; an add_transaction that *)
(* returns false (unknown source or recipient, source == recipient, amount <= 0,  *)
(* insufficient balance) leaves balances, pending and chain unchanged and appends *)
(* exactly one entry to the invalid-transaction list.                             *)
\* sum(balances.values())
RECURSIVE FloatSum(_, _)
FloatSum(bal, users) ==
    IF users = {} THEN Float(0)
    ELSE LET u == CHOOSE x \in users : TRUE
         IN  FloatAdd(bal[u], FloatSum(bal, users \ {u}))

\* the step is an add_transaction that returned False
ServerRefuses ==
    reply' # reply /\ reply'.op = "add_transaction" /\ ~reply'.ok

C40_BalancesConserved ==
    /\ [](/\ \A u \in DOMAIN user_balances : FloatLessEq(Float(0), user_balances[u])
          /\ FloatSum(user_balances, DOMAIN user_balances)
                 = Float(StartingBalance * Cardinality(DOMAIN user_balances)))
    /\ [][ServerRefuses =>
              /\ UNCHANGED <<user_balances, pending_transactions, chain>>
              /\ Len(rejected_transactions') = Len(rejected_transactions) + 1
              /\ SubSeq(rejected_transactions', 1, Len(rejected_transactions))
                     = rejected_transactions]_vars

====
